---- MODULE Spec2Model ----
(***************************************************************************)
(* Model of the dose evaluation core of BrachyD2ccEval                     *)
(* (src/src/calculations.py, src/src/config.py, src/src/main.py).          *)
(*                                                                         *)
(* Doses, BED and EQD2 values are Python floats in the source.  They are   *)
(* modelled as exact rationals [n |-> numerator, d |-> denominator > 0]    *)
(* in Gy, kept in lowest terms.  round(x, 2) is modelled by Round2, the    *)
(* set of hundredths nearest to x: one value, or both neighbours when x    *)
(* is exactly halfway (the binary float is then slightly above or below    *)
(* the decimal value, so the source goes either way).                      *)
(***************************************************************************)
EXTENDS Integers, Sequences, FiniteSets, TLC

VARIABLES
    fn,                   \* the function the caller invokes
    pc,                   \* "ready" before the call, "done" after it
    fractions,
    dose,                 \* physical dose per fraction (Gy)
    organ,
    ebrt,
    prior_bed,
    ab_table,    \* None or Some(table)
    eqd2_limit,
    bed_ret,              \* the tuple returned by the BED/EQD2 functions
    solve_ret,            \* the value returned by calculate_dose_to_meet_constraint
    dvh,                  \* dvh_results: a sequence of <<name, record>> in dict order
    points,               \* point_dose_results
    constraints_arg,      \* the constraints argument: None or Some(table)
    mapping_arg,          \* the dose_point_mapping argument: None or Some(dict)
    eval_ret,             \* what evaluate_constraints returned
    args_ab,              \* args.alpha_beta_ratios of main: absent, None or a table
    args_prev,            \* args.previous_brachy_data of main: None, a parsed HTML report or JSON data
    current_ab,           \* main's current_alpha_beta_ratios
    previous_brachy_bed_per_organ,       \* main's previous_brachy_bed_per_organ
    main_exc,             \* the exception main ends with, "none" without one
    raw_name,             \* the characters of the name given to normalize_structure_name
    normalized,           \* the results of normalizing it once, and of normalizing the result
    variant,              \* a second name of the structure that organ names
    variant_ret,          \* what get_dvh and evaluate_constraints gave for each of the two names
    roi,                  \* the structure's item of ROIContourSequence: its ContourSequence, if any
    structure_data,       \* what get_structure_data returned
    volumes,              \* what calculate_contour_volumes returned
    dvhcalc_ret,          \* what the DVH library does for the structure: raise, or return a DVH object
    requested_cc,         \* the volume_cc argument of calculate_d_volume
    d_volume_ret,         \* what calculate_d_volume returned
    dose_grid,            \* the dose grid of the mask-based get_dvh: shape, offsets, spacing, doses
    edge_pixels,          \* whether draw.polygon fills the pixels lying on the polygon's edge
    mask_ret,             \* what create_mask_from_contours returned
    transform_ret,        \* what transform_contour_to_dose_grid returned
    module_templates,     \* the templates dictionary of src/src/config.py as the module holds it
    call_log,             \* the calls made so far: function, arguments, the objects before and after, result
    confirmed_mapping,    \* main's confirmed_structure_mapping: None or Some(dict)
    point_arg,            \* the point_coordinates given to get_dose_at_point
    point_ret             \* what get_dose_at_point returned, and the voxel it read

radioVars == <<fn, pc, fractions, dose, organ, ebrt, prior_bed, ab_table, eqd2_limit, bed_ret, solve_ret>>

evalVars == <<dvh, points, constraints_arg, mapping_arg, eval_ret>>

mainVars == <<args_ab, args_prev, current_ab, previous_brachy_bed_per_organ, main_exc>>

nameVars == <<raw_name, normalized, variant, variant_ret>>

\* the variables of the geometry and DVH functions
volumeVars == <<roi, structure_data, volumes, dvhcalc_ret, requested_cc, d_volume_ret>>

\* the variables of the mask-based functions
maskVars == <<dose_grid, edge_pixels, mask_ret, transform_ret>>

\* the module-level state and the history of the calls
lateVars == <<module_templates, call_log, confirmed_mapping, point_arg, point_ret>>

restVars == <<nameVars, volumeVars, maskVars, lateVars>>

vars == <<radioVars, evalVars, mainVars, restVars>>

(***************************************************************************)
(* Exact rational arithmetic                                               *)
(***************************************************************************)
Abs(x) == IF x < 0 THEN -x ELSE x

RECURSIVE GCD(_, _)
GCD(a, b) == IF b = 0 THEN a ELSE GCD(b, a % b)

LCM(a, b) == (a \div GCD(a, b)) * b

Rat(n, d) ==
    LET g == GCD(Abs(n), d)
    IN  [n |-> n \div g, d |-> d \div g]

R(i) == [n |-> i, d |-> 1]

\* a value given in hundredths of a Gy
Centi(h) == Rat(h, 100)

RAdd(x, y) ==
    LET l == LCM(x.d, y.d)
    IN  Rat(x.n * (l \div x.d) + y.n * (l \div y.d), l)

RNeg(x) == [n |-> -x.n, d |-> x.d]

RSub(x, y) == RAdd(x, RNeg(y))

RMul(x, y) ==
    LET g1 == GCD(Abs(x.n), y.d)
        g2 == GCD(Abs(y.n), x.d)
    IN  IF x.n = 0 \/ y.n = 0 THEN R(0)
        ELSE Rat((x.n \div g1) * (y.n \div g2), (x.d \div g2) * (y.d \div g1))

\* x / y for y # 0
RDiv(x, y) ==
    IF y.n > 0 THEN RMul(x, [n |-> y.d, d |-> y.n])
    ELSE RMul(x, [n |-> -y.d, d |-> -y.n])

RLe(x, y) == RSub(x, y).n <= 0
RLt(x, y) == RSub(x, y).n < 0
RAbs(x) == [n |-> Abs(x.n), d |-> x.d]

\* round(x, 2): the hundredths nearest to x, both neighbours on an exact tie
Round2(x) ==
    LET num == x.n * 100
        q == num \div x.d
        rem == num % x.d
    IN  IF 2 * rem < x.d THEN {Centi(q)}
        ELSE IF 2 * rem > x.d THEN {Centi(q + 1)}
        ELSE {Centi(q), Centi(q + 1)}

\* the value of x in hundredths when x has at most two decimals
Hundredths(x) == x.n * (100 \div x.d)

(***************************************************************************)
(* src/src/config.py: templates                                            *)
(***************************************************************************)
EmbraceII == "Cervix HDR - EMBRACE II"

\* templates["Cervix HDR - EMBRACE II"]["alpha_beta_ratios"] (also the "Custom" table)
EmbraceAlphaBeta ==
    [Bladder |-> 3, Rectum |-> 3, Sigmoid |-> 3, Bowel |-> 3, Vagina |-> 3,
     Uterus |-> 3, Cervix |-> 10, Hrctv |-> 10, Gtv |-> 10, Default |-> 3]

\* templates["Cylinder HDR"]["alpha_beta_ratios"]
CylinderAlphaBeta ==
    [Bladder |-> 3, Rectum |-> 3, Sigmoid |-> 3, Bowel |-> 3, Vagina |-> 3,
     Uterus |-> 3, Cervix |-> 3, HRCTV |-> 3, GTV |-> 3, Default |-> 3]

\* an optional argument: <<>> is Python's None, <<v>> is the value v
None == <<>>
Some(v) == <<v>>

\* alpha/beta tables a caller passes that are not templates
CustomAlphaBeta == [Bladder |-> 2, Hrctv |-> 10, Default |-> 4]
NoDefaultAlphaBeta == [Bladder |-> 3, Hrctv |-> 10]

(***************************************************************************)
(* src/src/calculations.py: the radiobiological conversions                *)
(***************************************************************************)
\* the EBRT fraction size assumed by each function, in tenths of a Gy
EBRT_FRACTION_STRUCTURE == 20
EBRT_FRACTION_POINT == 18
\* the reference fraction size of EQD2, in tenths of a Gy
EQD2_FRACTION == 20

Tenths(t) == Rat(t, 10)

\* the table a calculation uses: the EMBRACE II template when none is passed
TableOf(alpha_beta_ratios) ==
    IF alpha_beta_ratios = None THEN EmbraceAlphaBeta ELSE alpha_beta_ratios[1]

\* alpha_beta_ratios.get(organ_name, alpha_beta_ratios["Default"]) raises
\* KeyError when the table has no "Default" (the default is evaluated first)
RaisesKeyError(alpha_beta_ratios) ==
    "Default" \notin DOMAIN TableOf(alpha_beta_ratios)

\* (mutant: the organ's own entry is ignored)
AlphaBetaLookup_DefaultOnly(organ_name, alpha_beta_ratios) ==
    TableOf(alpha_beta_ratios)["Default"]

AlphaBetaLookup(organ_name, alpha_beta_ratios) ==
    LET t == TableOf(alpha_beta_ratios)
    IN  IF organ_name \in DOMAIN t THEN t[organ_name] ELSE t["Default"]

BedResult(exc, total_bed, eqd2, bed_brachy, bed_ebrt, bed_previous_brachy) ==
    [exc |-> exc, total_bed |-> total_bed, eqd2 |-> eqd2, bed_brachy |-> bed_brachy,
     bed_ebrt |-> bed_ebrt, bed_previous_brachy |-> bed_previous_brachy]

BedRaised(exc) == BedResult(exc, R(0), R(0), R(0), R(0), R(0))
NoBedResult == BedRaised("not called")

\* the unrounded values of calculate_bed_and_eqd2 (lines 124-133)
\* (mutant: the total dose used where the dose per fraction belongs)
BedBrachy_TotalDose(total_dose, dose_per_fraction, alpha_beta) ==
    RMul(total_dose, RAdd(R(1), RDiv(total_dose, R(alpha_beta))))

BedBrachy(total_dose, dose_per_fraction, alpha_beta) ==
    RMul(total_dose, RAdd(R(1), RDiv(dose_per_fraction, R(alpha_beta))))

BedEbrtStructure(ebrt_dose, alpha_beta) ==
    RMul(ebrt_dose, RAdd(R(1), RDiv(Tenths(EBRT_FRACTION_STRUCTURE), R(alpha_beta))))

\* (mutant: the EQD2 taken at the 1.8 Gy fraction size)
Eqd2Of_PointFraction(total_bed, alpha_beta) ==
    RDiv(total_bed, RAdd(R(1), RDiv(Tenths(EBRT_FRACTION_POINT), R(alpha_beta))))

Eqd2Of(total_bed, alpha_beta) ==
    RDiv(total_bed, RAdd(R(1), RDiv(Tenths(EQD2_FRACTION), R(alpha_beta))))

\* every tuple calculate_bed_and_eqd2 can return (one per rounding outcome)
calculate_bed_and_eqd2(total_dose, dose_per_fraction, organ_name, ebrt_dose, previous_brachy_bed, alpha_beta_ratios) ==
    IF RaisesKeyError(alpha_beta_ratios) THEN {BedRaised("KeyError")}
    ELSE
    LET alpha_beta == AlphaBetaLookup(organ_name, alpha_beta_ratios)
        bed_brachy == BedBrachy(total_dose, dose_per_fraction, alpha_beta)
        bed_ebrt == BedEbrtStructure(ebrt_dose, alpha_beta)
        total_bed == RAdd(RAdd(bed_brachy, bed_ebrt), previous_brachy_bed)
        eqd2 == Eqd2Of(total_bed, alpha_beta)
    IN  { BedResult("none", t, e, b, eb, p) :
            t \in Round2(total_bed), e \in Round2(eqd2), b \in Round2(bed_brachy),
            eb \in Round2(bed_ebrt), p \in Round2(previous_brachy_bed) }

BedEbrtPoint(ebrt_dose, alpha_beta) ==
    RMul(ebrt_dose, RAdd(R(1), RDiv(Tenths(EBRT_FRACTION_POINT), R(alpha_beta))))

\* every tuple calculate_point_dose_bed_eqd2 can return
calculate_point_dose_bed_eqd2(point_dose, number_of_fractions, organ_name, ebrt_dose, previous_brachy_bed, alpha_beta_ratios) ==
    IF RaisesKeyError(alpha_beta_ratios) THEN {BedRaised("KeyError")}
    ELSE
    LET alpha_beta == AlphaBetaLookup(organ_name, alpha_beta_ratios)
        total_dose == RMul(point_dose, R(number_of_fractions))
        bed_brachy == BedBrachy(total_dose, point_dose, alpha_beta)
        bed_ebrt == BedEbrtPoint(ebrt_dose, alpha_beta)
        bed_previous_brachy == previous_brachy_bed
        total_bed == RAdd(RAdd(bed_brachy, bed_ebrt), bed_previous_brachy)
        eqd2 == Eqd2Of(total_bed, alpha_beta)
    IN  { BedResult("none", t, e, b, eb, p) :
            t \in Round2(total_bed), e \in Round2(eqd2), b \in Round2(bed_brachy),
            eb \in Round2(bed_ebrt), p \in Round2(bed_previous_brachy) }

(***************************************************************************)
(* src/src/calculations.py: calculate_dose_to_meet_constraint              *)
(***************************************************************************)
SolveResult(kind, value) == [kind |-> kind, dose |-> value]
NoSolveResult == SolveResult("not called", R(0))

\* np.sqrt(discriminant) is irrational in general: its order against a rational y
\* is decided exactly, by comparing the discriminant with y squared
SqrtGe(discriminant, y) == y.n <= 0 \/ RLe(RMul(y, y), discriminant)
SqrtEq(discriminant, y) == y.n >= 0 /\ RMul(y, y) = discriminant

\* (-b + np.sqrt(discriminant)) / (2*a) >= t, for a > 0
RootGe(a, b, discriminant, t) ==
    SqrtGe(discriminant, RAdd(RMul(RMul(R(2), a), t), b))

RootEq(a, b, discriminant, t) ==
    SqrtEq(discriminant, RAdd(RMul(RMul(R(2), a), t), b))

\* the root in units of 0.005 Gy, rounded down: first a power of two above it,
\* then bisection between lo (root >= lo/200) and hi (root < hi/200)
RECURSIVE RootAbove(_, _, _, _)
RootAbove(a, b, discriminant, h) ==
    IF RootGe(a, b, discriminant, Rat(h, 200))
    THEN RootAbove(a, b, discriminant, 2 * h) ELSE h

RECURSIVE RootFloor(_, _, _, _, _)
RootFloor(a, b, discriminant, lo, hi) ==
    IF hi - lo <= 1 THEN lo
    ELSE LET mid == (lo + hi) \div 2
         IN  IF RootGe(a, b, discriminant, Rat(mid, 200))
             THEN RootFloor(a, b, discriminant, mid, hi)
             ELSE RootFloor(a, b, discriminant, lo, mid)

\* round(dose_per_fraction_solution, 2) for a root >= 0
RoundRoot(a, b, discriminant) ==
    LET m == RootFloor(a, b, discriminant, 0, RootAbove(a, b, discriminant, 1))
        j == m \div 2
    IN  IF m % 2 = 0 THEN {Centi(j)}
        ELSE IF RootEq(a, b, discriminant, Rat(m, 200)) THEN {Centi(j), Centi(j + 1)}
        ELSE {Centi(j + 1)}

\* (mutant: the prior brachytherapy BED is not subtracted)
BedBrachyNeeded_NoPrior(eqd2_constraint, ebrt_dose, previous_brachy_bed, alpha_beta) ==
    LET k_factor == RAdd(R(1), RDiv(Tenths(EQD2_FRACTION), R(alpha_beta)))
    IN  RSub(RMul(eqd2_constraint, k_factor), RMul(ebrt_dose, k_factor))

\* lines 146-156: the BED still available to the new brachytherapy fractions
BedBrachyNeeded(eqd2_constraint, ebrt_dose, previous_brachy_bed, alpha_beta) ==
    LET k_factor == RAdd(R(1), RDiv(Tenths(EQD2_FRACTION), R(alpha_beta)))
        total_bed_target == RMul(eqd2_constraint, k_factor)
        bed_ebrt == RMul(ebrt_dose, k_factor)
        bed_previous_brachy == previous_brachy_bed
    IN  RSub(RSub(total_bed_target, bed_ebrt), bed_previous_brachy)

\* lines 161-165
Discriminant(number_of_fractions, alpha_beta, bed_brachy_needed) ==
    LET a == Rat(number_of_fractions, alpha_beta)
        b == R(number_of_fractions)
        c == RNeg(bed_brachy_needed)
    IN  RSub(RMul(b, b), RMul(RMul(R(4), a), c))

\* every value calculate_dose_to_meet_constraint can return: a dose, None, or
\* nan when number_of_fractions is 0 (a is 0.0 and numpy divides 0.0 by 0.0)
calculate_dose_to_meet_constraint(eqd2_constraint, organ_name, number_of_fractions, ebrt_dose, previous_brachy_bed, alpha_beta_ratios) ==
    IF RaisesKeyError(alpha_beta_ratios) THEN {SolveResult("KeyError", R(0))}
    ELSE
    LET alpha_beta == AlphaBetaLookup(organ_name, alpha_beta_ratios)
        bed_brachy_needed ==
            BedBrachyNeeded(eqd2_constraint, ebrt_dose, previous_brachy_bed, alpha_beta)
        a == Rat(number_of_fractions, alpha_beta)
        b == R(number_of_fractions)
        discriminant == Discriminant(number_of_fractions, alpha_beta, bed_brachy_needed)
    IN  IF discriminant.n < 0 THEN {SolveResult("None", R(0))}
        ELSE IF a.n = 0 THEN {SolveResult("nan", R(0))}
        ELSE IF ~RootGe(a, b, discriminant, R(0)) THEN {SolveResult("None", R(0))}
        ELSE {SolveResult("dose", r) : r \in RoundRoot(a, b, discriminant)}

(***************************************************************************)
(* src/src/calculations.py: normalize_structure_name                       *)
(* A name is processed as its sequence of characters.                      *)
(***************************************************************************)
UpperCase == <<"A", "B", "C", "D", "E", "F", "G", "H", "I", "J", "K", "L", "M", "N", "O", "P", "Q", "R", "S", "T", "U", "V", "W", "X", "Y", "Z">>
LowerCase == <<"a", "b", "c", "d", "e", "f", "g", "h", "i", "j", "k", "l", "m", "n", "o", "p", "q", "r", "s", "t", "u", "v", "w", "x", "y", "z">>

IndexIn(c, letters) == CHOOSE i \in 1 .. Len(letters) : letters[i] = c
IsIn(c, letters) == \E i \in 1 .. Len(letters) : letters[i] = c

\* str.lower() and str.upper() on one character
LowerChar(c) == IF IsIn(c, UpperCase) THEN LowerCase[IndexIn(c, UpperCase)] ELSE c
UpperChar(c) == IF IsIn(c, LowerCase) THEN UpperCase[IndexIn(c, LowerCase)] ELSE c

\* the characters \s matches, and the newline that "." does not match
IsSpace(c) == c \in {" ", "\t", "\n", "\r"}
IsNewline(c) == c = "\n"

\* the first index >= i of a character that is no whitespace (Len + 1 when none)
RECURSIVE SkipSpace(_, _)
SkipSpace(cs, i) ==
    IF i <= Len(cs) /\ IsSpace(cs[i]) THEN SkipSpace(cs, i + 1) ELSE i

\* the index of the first `close` at or after i with no newline before it, 0 when none
RECURSIVE FindClose(_, _, _)
FindClose(cs, i, close) ==
    IF i > Len(cs) \/ IsNewline(cs[i]) THEN 0
    ELSE IF cs[i] = close THEN i
    ELSE FindClose(cs, i + 1, close)

\* re.sub(r'\s*<open>.*?<close>', '', name) from index i on: at each position the
\* leftmost match (whitespace, the opening bracket, the shortest text up to the
\* closing bracket) is removed
RECURSIVE SubBracket(_, _, _, _)
SubBracket(cs, i, open, close) ==
    IF i > Len(cs) THEN <<>>
    ELSE LET j == SkipSpace(cs, i)
             k == IF j <= Len(cs) /\ cs[j] = open THEN FindClose(cs, j + 1, close) ELSE 0
         IN  IF k > 0 THEN SubBracket(cs, k + 1, open, close)
             ELSE <<cs[i]>> \o SubBracket(cs, i + 1, open, close)

\* str.strip()
RECURSIVE StripLeft(_)
StripLeft(cs) == IF cs # <<>> /\ IsSpace(Head(cs)) THEN StripLeft(Tail(cs)) ELSE cs

RECURSIVE StripRight(_)
StripRight(cs) ==
    IF cs # <<>> /\ IsSpace(cs[Len(cs)]) THEN StripRight(SubSeq(cs, 1, Len(cs) - 1)) ELSE cs

Strip(cs) == StripRight(StripLeft(cs))

Lower(cs) == [i \in 1 .. Len(cs) |-> LowerChar(cs[i])]

\* str.capitalize(): the first character upper case, the others lower case
Capitalize(cs) == [i \in 1 .. Len(cs) |-> IF i = 1 THEN UpperChar(cs[i]) ELSE LowerChar(cs[i])]

\* (mutant: parenthetical suffixes are kept)
NormalizeChars_KeepParentheses(cs) ==
    Capitalize(Lower(Strip(SubBracket(cs, 1, "[", "]"))))

NormalizeChars(cs) ==
    LET name1 == SubBracket(cs, 1, "[", "]")
        name2 == SubBracket(name1, 1, "(", ")")
    IN  Capitalize(Lower(Strip(name2)))

\* the structure names of the model, each with its characters
Vocabulary ==
    { <<"Bladder", <<"B", "l", "a", "d", "d", "e", "r">>>>,
      <<"bladder", <<"b", "l", "a", "d", "d", "e", "r">>>>,
      <<"Bladder [cm3]", <<"B", "l", "a", "d", "d", "e", "r", " ", "[", "c", "m", "3", "]">>>>,
      <<"BLADDER (2)", <<"B", "L", "A", "D", "D", "E", "R", " ", "(", "2", ")">>>>,
      <<"Bladder (2)", <<"B", "l", "a", "d", "d", "e", "r", " ", "(", "2", ")">>>>,
      <<"RECTUM ", <<"R", "E", "C", "T", "U", "M", " ">>>>,
      <<"hrctv [cc]", <<"h", "r", "c", "t", "v", " ", "[", "c", "c", "]">>>>,
      <<" rectum", <<" ", "r", "e", "c", "t", "u", "m">>>>,
      <<"Rectum", <<"R", "e", "c", "t", "u", "m">>>>,
      <<"Hrctv", <<"H", "r", "c", "t", "v">>>>,
      <<"HRCTV", <<"H", "R", "C", "T", "V">>>>,
      <<"Gtv", <<"G", "t", "v">>>>,
      <<"GTV", <<"G", "T", "V">>>>,
      <<"Ovary", <<"O", "v", "a", "r", "y">>>>,
      <<"Hrctv d90", <<"H", "r", "c", "t", "v", " ", "d", "9", "0">>>>,
      <<"HRCTV D90", <<"H", "R", "C", "T", "V", " ", "D", "9", "0">>>> }

Names == {w[1] : w \in Vocabulary}
Chars(name) == (CHOOSE w \in Vocabulary : w[1] = name)[2]
NameOf(cs) == (CHOOSE w \in Vocabulary : w[2] = cs)[1]

normalize_structure_name(name) == NameOf(NormalizeChars(Chars(name)))

(***************************************************************************)
(* src/src/calculations.py: calculate_contour_volumes                      *)
(* ContourData is the flat list x1, y1, z1, x2, y2, z2, ... in mm; x and y *)
(* are integers here, z is a rational.                                     *)
(***************************************************************************)
\* round(z, 4)
(* the inputs hold no z exactly halfway between two ten-thousandths *)
Round4(x) ==
    LET num == x.n * 10000
        q == num \div x.d
        rem == num % x.d
    IN  IF 2 * rem > x.d THEN Rat(q + 1, 10000) ELSE Rat(q, 10000)

\* np.array(ContourData).reshape((-1, 3)): the number of points, and point i
PointCount(contour_data) == Len(contour_data) \div 3
PointX(contour_data, i) == contour_data[3 * i - 2]
PointY(contour_data, i) == contour_data[3 * i - 1]
PointZ(contour_data, i) == contour_data[3 * i]

\* np.roll(v, 1)[i] = v[i - 1], the last element rolled to the front
RollIndex(n, i) == IF i = 1 THEN n ELSE i - 1

\* np.dot(p[:, 0], np.roll(p[:, 1], 1)) and np.dot(p[:, 1], np.roll(p[:, 0], 1)), up to point i
RECURSIVE DotXY(_, _)
DotXY(contour_data, i) ==
    IF i = 0 THEN 0
    ELSE PointX(contour_data, i) * PointY(contour_data, RollIndex(PointCount(contour_data), i))
         + DotXY(contour_data, i - 1)

RECURSIVE DotYX(_, _)
DotYX(contour_data, i) ==
    IF i = 0 THEN 0
    ELSE PointY(contour_data, i) * PointX(contour_data, RollIndex(PointCount(contour_data), i))
         + DotYX(contour_data, i - 1)

\* lines 39-40: 0.5 * np.abs(np.dot(x, roll(y)) - np.dot(y, roll(x)))
PolygonArea(contour_data) ==
    Rat(Abs(DotXY(contour_data, PointCount(contour_data)) - DotYX(contour_data, PointCount(contour_data))), 2)

\* lines 28-33: the z of a contour is that of its first point, rounded
ContourZ(contour_data) == Round4(PointZ(contour_data, 1))

\* the keys of slices_by_z
ZLevels(contour_sequence) == {ContourZ(contour_sequence[i]) : i \in 1 .. Len(contour_sequence)}

\* sorted(slices_by_z.keys())
RECURSIVE SortedZ(_)
SortedZ(levels) ==
    IF levels = {} THEN <<>>
    ELSE LET lowest == CHOOSE z \in levels : \A y \in levels : RLe(z, y)
         IN  <<lowest>> \o SortedZ(levels \ {lowest})

\* sum(area of p for p in slices_by_z[z]), over the contours from index i on
RECURSIVE SliceArea(_, _, _)
SliceArea(contour_sequence, z, i) ==
    IF i > Len(contour_sequence) THEN R(0)
    ELSE RAdd(IF ContourZ(contour_sequence[i]) = z THEN PolygonArea(contour_sequence[i]) ELSE R(0),
              SliceArea(contour_sequence, z, i + 1))

\* (mutant: each slab takes the area of its lower slice only)
SlabVolume_LowerSlice(contour_sequence, z1, z2) ==
    RMul(SliceArea(contour_sequence, z1, 1), RAbs(RSub(z1, z2)))

\* lines 38-42: (area1 + area2) / 2.0 * abs(z1 - z2)
SlabVolume(contour_sequence, z1, z2) ==
    RMul(RDiv(RAdd(SliceArea(contour_sequence, z1, 1), SliceArea(contour_sequence, z2, 1)), R(2)),
         RAbs(RSub(z1, z2)))

\* lines 35-42: the slabs between sorted_z[i] and sorted_z[i+1], from i on
RECURSIVE TotalVolumeMm3(_, _, _)
TotalVolumeMm3(contour_sequence, sorted_z, i) ==
    IF i >= Len(sorted_z) THEN R(0)
    ELSE RAdd(SlabVolume(contour_sequence, sorted_z[i], sorted_z[i + 1]),
              TotalVolumeMm3(contour_sequence, sorted_z, i + 1))

MM3_PER_CC == 1000

\* lines 21-43 for one structure: its entry of the volumes dict
calculate_contour_volumes(name, roi_contour) ==
    LET normalized_name == normalize_structure_name(name)
    IN  IF ~roi_contour.has_sequence \/ roi_contour.ContourSequence = <<>>
        THEN normalized_name :> R(0)
        ELSE normalized_name :>
                RDiv(TotalVolumeMm3(roi_contour.ContourSequence,
                                    SortedZ(ZLevels(roi_contour.ContourSequence)), 1),
                     R(MM3_PER_CC))

(***************************************************************************)
(* src/src/calculations.py: calculate_d_volume                             *)
(* A DVH object of the DVH library is a record: volume, the cumulative     *)
(* counts (cc) per dose bin, the bin centers (Gy) and its statistics.      *)
(***************************************************************************)
\* lines 98-99: the first index whose cumulative volume is <= volume_cc, 0 when none
RECURSIVE FirstAtOrBelow(_, _, _)
FirstAtOrBelow(cumulative_dvh, volume_cc, i) ==
    IF i > Len(cumulative_dvh) THEN 0
    ELSE IF RLe(cumulative_dvh[i], volume_cc) THEN i
    ELSE FirstAtOrBelow(cumulative_dvh, volume_cc, i + 1)

\* (mutant: the dose of the bin above the requested volume, without interpolation)
Interpolate_UpperBin(x1, y1, x2, y2, volume_cc) == y1

\* line 108: y1 + (volume_cc - x1) * (y2 - y1) / (x2 - x1)
Interpolate(x1, y1, x2, y2, volume_cc) ==
    RAdd(y1, RDiv(RMul(RSub(volume_cc, x1), RSub(y2, y1)), RSub(x2, x1)))

\* lines 88-110; dvh_object is None or Some(DVH object); the result is a dose, or the
\* division by zero of line 108 (an inf or nan of numpy)
calculate_d_volume(dvh_object, volume_cc) ==
    IF dvh_object = None THEN [exc |-> "none", dose |-> R(0)]
    ELSE IF dvh_object[1].volume = R(0) THEN [exc |-> "none", dose |-> R(0)]
    ELSE LET cumulative_dvh == dvh_object[1].counts
             dose_bins == dvh_object[1].bincenters
             i == FirstAtOrBelow(cumulative_dvh, volume_cc, 1)
         IN  IF i = 0 THEN [exc |-> "none", dose |-> R(0)]
             ELSE IF i = 1 THEN [exc |-> "none", dose |-> dose_bins[1]]
             ELSE IF cumulative_dvh[i] = cumulative_dvh[i - 1]
                  THEN [exc |-> "division by zero", dose |-> R(0)]
                  ELSE [exc |-> "none",
                        dose |-> Interpolate(cumulative_dvh[i - 1], dose_bins[i - 1],
                                             cumulative_dvh[i], dose_bins[i], volume_cc)]

(***************************************************************************)
(* src/src/config.py: the constraint tables of the EMBRACE II template     *)
(***************************************************************************)
EmbraceTargetConstraints ==
    ("Hrctv D90" :> [min |-> R(85), max |-> R(90), unit |-> "Gy"]) @@
    ("Hrctv D98" :> [min |-> R(75), unit |-> "Gy"]) @@
    ("Gtv D98" :> [min |-> R(95), unit |-> "Gy"])

EmbraceOarConstraints ==
    [Bladder |-> [D2cc |-> [max |-> R(80), unit |-> "Gy"]],
     Rectum |-> [D2cc |-> [warning |-> R(65), max |-> R(70), unit |-> "Gy"]],
     Sigmoid |-> [D2cc |-> [warning |-> R(65), max |-> R(70), unit |-> "Gy"]],
     Bowel |-> [D2cc |-> [warning |-> R(65), max |-> R(70), unit |-> "Gy"]]]

\* templates["Cervix HDR - EMBRACE II"]["constraints"]
EmbraceConstraints ==
    [target_constraints |-> EmbraceTargetConstraints, oar_constraints |-> EmbraceOarConstraints]

\* templates["Cervix HDR - EMBRACE II"]["point_dose_constraints"]
EmbracePointDoseConstraints ==
    ("Point A" :> [alpha_beta |-> 10, report_only |-> TRUE]) @@
    ("Bladder Point" :> [alpha_beta |-> 3, report_only |-> TRUE]) @@
    ("RV Point" :> [alpha_beta |-> 3, max_eqd2 |-> R(65), unit |-> "Gy"])

\* the templates dictionary the functions import for their fallbacks
ConfigTemplates ==
    [alpha_beta_ratios |-> EmbraceAlphaBeta, constraints |-> EmbraceConstraints,
     point_dose_constraints |-> EmbracePointDoseConstraints]

(***************************************************************************)
(* src/src/calculations.py: evaluate_constraints                           *)
(***************************************************************************)
Has(dict, key) == key \in DOMAIN dict

EvalResult(exc, constraint_evaluation) == [exc |-> exc, constraint_evaluation |-> constraint_evaluation]
EmptyDict == [k \in {} |-> <<>>]
NoEvalResult == EvalResult("not called", EmptyDict)

\* constraint.get(key): None when the key is absent
GetOpt(dict, key) == IF Has(dict, key) THEN Some(dict[key]) ELSE None

\* lines 330-349: the D2cc verdict of one organ
\* (mutant: the limit itself counts as exceeded)
D2ccEvaluation_StrictMax(constraint_data, current_eqd2) ==
    LET max_eqd2 == constraint_data["max"]
        warning_eqd2 == GetOpt(constraint_data, "warning")
        verdict == IF RLt(current_eqd2, max_eqd2)
                   THEN [EQD2_met |-> "True",
                         EQD2_status |-> IF warning_eqd2 # None /\ RLt(warning_eqd2[1], current_eqd2)
                                         THEN "Warning" ELSE "Met"]
                   ELSE [EQD2_met |-> "False", EQD2_status |-> "NOT Met"]
    IN  verdict @@ [EQD2_value |-> current_eqd2, EQD2_max |-> max_eqd2, EQD2_warning |-> warning_eqd2]

D2ccEvaluation(constraint_data, current_eqd2) ==
    LET max_eqd2 == constraint_data["max"]
        warning_eqd2 == GetOpt(constraint_data, "warning")
        verdict == IF RLe(current_eqd2, max_eqd2)
                   THEN [EQD2_met |-> "True",
                         EQD2_status |-> IF warning_eqd2 # None /\ RLt(warning_eqd2[1], current_eqd2)
                                         THEN "Warning" ELSE "Met"]
                   ELSE [EQD2_met |-> "False", EQD2_status |-> "NOT Met"]
    IN  verdict @@ [EQD2_value |-> current_eqd2, EQD2_max |-> max_eqd2, EQD2_warning |-> warning_eqd2]

\* str(is_met)
PyStr(b) == IF b THEN "True" ELSE "False"

\* lines 354-369: the HRCTV D90 verdict
D90Evaluation(constraint_data, current_eqd2) ==
    LET min_eqd2 == constraint_data["min"]
        max_eqd2 == GetOpt(constraint_data, "max")
        is_met == RLe(min_eqd2, current_eqd2) /\ (max_eqd2 # None => RLe(current_eqd2, max_eqd2[1]))
    IN  [EQD2_value_D90 |-> current_eqd2, EQD2_min_D90 |-> min_eqd2, EQD2_max_D90 |-> max_eqd2,
         EQD2_met_D90 |-> PyStr(is_met), EQD2_status_D90 |-> IF is_met THEN "Met" ELSE "NOT Met"]

\* lines 373-384 and 388-399: the D98 verdict of HRCTV and of GTV
D98Evaluation(constraint_data, current_eqd2) ==
    LET min_eqd2 == constraint_data["min"]
        is_met == RLe(min_eqd2, current_eqd2)
    IN  [EQD2_value_D98 |-> current_eqd2, EQD2_min_D98 |-> min_eqd2,
         EQD2_met_D98 |-> PyStr(is_met), EQD2_status_D98 |-> IF is_met THEN "Met" ELSE "NOT Met"]

\* lines 326-400, one pass of the loop over dvh_results: the keys this organ sets in
\* constraint_evaluation.  They all refer to the one dict `evaluation`, so each shows
\* every field the pass stores in it.
EvaluateOrgan(constraints, organ_key, data) ==
    LET normalized_organ == normalize_structure_name(organ_key)
        hasD2cc == Has(constraints, normalized_organ) /\ Has(constraints[normalized_organ], "D2cc")
        hasD90 == Has(constraints, "HRCTV D90") /\ normalized_organ = "Hrctv"
        hasD98 == Has(constraints, "HRCTV D98") /\ normalized_organ = "Hrctv"
        hasGtv == Has(constraints, "GTV D98") /\ normalized_organ = "Gtv"
        keyError == \/ hasD2cc /\ ~Has(data, "eqd2_d2cc")
                    \/ hasD90 /\ ~Has(data, "eqd2_d90")
                    \/ (hasD98 \/ hasGtv) /\ ~Has(data, "eqd2_d98")
        e1 == IF hasD2cc THEN D2ccEvaluation(constraints[normalized_organ]["D2cc"], data["eqd2_d2cc"]) ELSE EmptyDict
        e2 == IF hasD90 THEN D90Evaluation(constraints["HRCTV D90"], data["eqd2_d90"]) ELSE EmptyDict
        e3 == IF hasD98 THEN D98Evaluation(constraints["HRCTV D98"], data["eqd2_d98"]) ELSE EmptyDict
        e4 == IF hasGtv THEN D98Evaluation(constraints["GTV D98"], data["eqd2_d98"]) ELSE EmptyDict
        evaluation == e4 @@ e3 @@ e2 @@ e1
        keys == (IF hasD2cc THEN {normalized_organ} ELSE {}) \cup (IF hasD90 THEN {"HRCTV D90"} ELSE {})
                \cup (IF hasD98 THEN {"HRCTV D98"} ELSE {}) \cup (IF hasGtv THEN {"GTV D98"} ELSE {})
    IN  IF keyError THEN EvalResult("KeyError", EmptyDict)
        ELSE EvalResult("none", [k \in keys |-> evaluation])

\* the loop over dvh_results (a sequence of <<name, data>> in dict order): a later organ
\* overwrites the keys of an earlier one; an exception ends the call
RECURSIVE EvaluateOrgans(_, _, _)
EvaluateOrgans(constraints, items, constraint_evaluation) ==
    IF items = <<>> THEN EvalResult("none", constraint_evaluation)
    ELSE LET r == EvaluateOrgan(constraints, Head(items)[1], Head(items)[2])
         IN  IF r.exc # "none" THEN r
             ELSE EvaluateOrgans(constraints, Tail(items), r.constraint_evaluation @@ constraint_evaluation)

\* lines 402-417: the verdicts of the point doses
RECURSIVE EvaluatePoints(_, _, _, _)
EvaluatePoints(point_dose_results, point_dose_constraints, dose_point_mapping, constraint_evaluation) ==
    IF point_dose_results = <<>> THEN constraint_evaluation
    ELSE LET point_dose == Head(point_dose_results)
             point_name == point_dose.name
             constraint == point_dose_constraints[dose_point_mapping[point_name]]
             judged == /\ Has(dose_point_mapping, point_name)
                       /\ Has(point_dose_constraints, dose_point_mapping[point_name])
                       /\ ~(Has(constraint, "report_only") /\ constraint.report_only)
                       /\ Has(constraint, "max_eqd2")
             entry == [status |-> IF RLe(point_dose.EQD2, constraint.max_eqd2) THEN "Met" ELSE "NOT Met",
                       EQD2_value |-> point_dose.EQD2, EQD2_max |-> constraint.max_eqd2]
         IN  EvaluatePoints(Tail(point_dose_results), point_dose_constraints, dose_point_mapping,
                            IF judged THEN (("Point Dose - " \o point_name) :> entry) @@ constraint_evaluation
                            ELSE constraint_evaluation)

evaluate_constraints(dvh_results, point_dose_results, constraints, point_dose_constraints, dose_point_mapping) ==
    LET cons == IF constraints = None THEN EmbraceConstraints ELSE constraints[1]
        pdc == IF point_dose_constraints = None THEN EmbracePointDoseConstraints ELSE point_dose_constraints[1]
        mapping == IF dose_point_mapping = None THEN EmptyDict ELSE dose_point_mapping[1]
        organs == EvaluateOrgans(cons, dvh_results, EmptyDict)
    IN  IF organs.exc # "none" THEN organs
        ELSE EvalResult("none", EvaluatePoints(point_dose_results, pdc, mapping, organs.constraint_evaluation))

(***************************************************************************)
(* src/src/calculations.py: get_dvh, the D2cc part of one structure        *)
(***************************************************************************)
\* a prior-brachytherapy entry: a dict of BED per metric, or a bare float
MetricDict(d2cc) == [kind |-> "dict", d2cc |-> d2cc]
BareFloat(value) == [kind |-> "float", value |-> value]

\* previous_brachy_bed_per_organ.get(normalized_name, {}).get(metric, 0):
\* a float entry has no get and raises AttributeError
PreviousLookupRaises(prev_per_organ, normalized_name) ==
    Has(prev_per_organ, normalized_name) /\ prev_per_organ[normalized_name].kind = "float"

PreviousLookup(prev_per_organ, normalized_name, metric) ==
    IF Has(prev_per_organ, normalized_name) /\ Has(prev_per_organ[normalized_name], metric)
    THEN prev_per_organ[normalized_name][metric] ELSE R(0)

DvhResult(exc, items) == [exc |-> exc, items |-> items]

\* lines 214-216 and 270-309 for one structure whose D2cc the DVH library reports as
\* d2cc_gy_per_fraction: the record stored under the normalized name (its D2cc keys)
get_dvh(name, d2cc_gy_per_fraction, number_of_fractions, ebrt_dose, prev_per_organ, alpha_beta_ratios) ==
    LET normalized_name == normalize_structure_name(name)
        total_d2cc_gy == RMul(d2cc_gy_per_fraction, R(number_of_fractions))
        beds == calculate_bed_and_eqd2(total_d2cc_gy, d2cc_gy_per_fraction, normalized_name, ebrt_dose,
                                       PreviousLookup(prev_per_organ, normalized_name, "d2cc"), alpha_beta_ratios)
    IN  IF PreviousLookupRaises(prev_per_organ, normalized_name) THEN {DvhResult("AttributeError", <<>>)}
        ELSE { IF r.exc # "none" THEN DvhResult(r.exc, <<>>)
               ELSE DvhResult("none", << <<normalized_name,
                        [d2cc_gy_per_fraction |-> d, total_d2cc_gy |-> t, bed_d2cc |-> r.total_bed,
                         eqd2_d2cc |-> r.eqd2, bed_this_plan |-> r.bed_brachy, bed_ebrt |-> r.bed_ebrt,
                         bed_previous_brachy |-> r.bed_previous_brachy]>> >>) :
               r \in beds, d \in Round2(d2cc_gy_per_fraction), t \in Round2(total_d2cc_gy) }

(***************************************************************************)
(* src/src/dicom_parser.py: get_structure_data, and                        *)
(* src/src/calculations.py: get_dvh, the whole record of one structure     *)
(***************************************************************************)
\* dicom_parser.py lines 53-57 for one ROI: reading roi_contour.ContourSequence of an
\* item that has none raises AttributeError
get_structure_data(name, roi_contour) ==
    IF ~roi_contour.has_sequence THEN [exc |-> "AttributeError"]
    ELSE [exc |-> "none",
          data |-> name :> [ROINumber |-> 1, ContourData |-> roi_contour.ContourSequence]]

\* a DVH object of the DVH library
DvhObject(volume, counts, bincenters, D2cc, D1cc, max, mean, min, D95, D98, D90) ==
    [volume |-> volume, counts |-> counts, bincenters |-> bincenters, D2cc |-> D2cc, D1cc |-> D1cc,
     max |-> max, mean |-> mean, min |-> min, D95 |-> D95, D98 |-> D98, D90 |-> D90]

\* lines 260-268: the metrics when the try block raised
ZeroMetrics ==
    [d2cc |-> R(0), d1cc |-> R(0), d0_1cc |-> R(0), max |-> R(0), mean |-> R(0), min |-> R(0),
     d95 |-> R(0), d98 |-> R(0), d90 |-> R(0)]

D0_1CC_HUNDREDTHS == 10

\* lines 221-268: the dose metrics per fraction read from the DVH library
DoseMetrics(outcome) ==
    IF outcome.raises THEN ZeroMetrics
    ELSE LET d0_1cc == calculate_d_volume(outcome.dvh, Centi(D0_1CC_HUNDREDTHS))
             o == outcome.dvh[1]
         IN  IF d0_1cc.exc # "none" THEN ZeroMetrics
             ELSE [d2cc |-> o.D2cc, d1cc |-> o.D1cc, d0_1cc |-> d0_1cc.dose, max |-> o.max,
                   mean |-> o.mean, min |-> o.min, d95 |-> o.D95, d98 |-> o.D98, d90 |-> o.D90]

\* the keys of a record of dvh_results (lines 288-309)
DvhRecordKeys ==
    {"volume_cc", "d2cc_gy_per_fraction", "d1cc_gy_per_fraction", "d0_1cc_gy_per_fraction",
     "max_dose_gy_per_fraction", "mean_dose_gy_per_fraction", "min_dose_gy_per_fraction",
     "d95_gy_per_fraction", "d98_gy_per_fraction", "d90_gy_per_fraction", "total_d2cc_gy",
     "bed_d2cc", "eqd2_d2cc", "bed_d1cc", "eqd2_d1cc", "bed_d0_1cc", "eqd2_d0_1cc",
     "bed_this_plan", "bed_ebrt", "bed_previous_brachy"}

\* lines 212-309 for one structure: its volume from calculate_contour_volumes, its dose
\* metrics from the DVH library (zeros when that raises), BED and EQD2 of D2cc, D1cc
\* and D0.1cc, and the record stored under the normalized name
get_dvh_structure(name, roi_contour, outcome, number_of_fractions, ebrt_dose, prev_per_organ, alpha_beta_ratios) ==
    LET normalized_name == normalize_structure_name(name)
        all_calculated_volumes == calculate_contour_volumes(name, roi_contour)
        organ_volume_cc == all_calculated_volumes[normalized_name]
        m == DoseMetrics(outcome)
        d2cc_part == get_dvh(name, m.d2cc, number_of_fractions, ebrt_dose, prev_per_organ, alpha_beta_ratios)
        d1cc_beds == calculate_bed_and_eqd2(RMul(m.d1cc, R(number_of_fractions)), m.d1cc, normalized_name, ebrt_dose,
                                            PreviousLookup(prev_per_organ, normalized_name, "d1cc"), alpha_beta_ratios)
        d0_1cc_beds == calculate_bed_and_eqd2(RMul(m.d0_1cc, R(number_of_fractions)), m.d0_1cc, normalized_name, ebrt_dose,
                                              PreviousLookup(prev_per_organ, normalized_name, "d0_1cc"), alpha_beta_ratios)
    IN  { IF p.exc # "none" THEN p
          ELSE DvhResult("none", << <<normalized_name,
                   [volume_cc |-> vol, d1cc_gy_per_fraction |-> d1, d0_1cc_gy_per_fraction |-> d01,
                    max_dose_gy_per_fraction |-> mx, mean_dose_gy_per_fraction |-> mn,
                    min_dose_gy_per_fraction |-> mi, d95_gy_per_fraction |-> d95,
                    d98_gy_per_fraction |-> d98, d90_gy_per_fraction |-> d90,
                    bed_d1cc |-> b1.total_bed, eqd2_d1cc |-> b1.eqd2,
                    bed_d0_1cc |-> b01.total_bed, eqd2_d0_1cc |-> b01.eqd2] @@ p.items[1][2]>> >>) :
          p \in d2cc_part, b1 \in d1cc_beds, b01 \in d0_1cc_beds,
          vol \in Round2(organ_volume_cc), d1 \in Round2(m.d1cc), d01 \in Round2(m.d0_1cc),
          mx \in Round2(m.max), mn \in Round2(m.mean), mi \in Round2(m.min),
          d95 \in Round2(m.d95), d98 \in Round2(m.d98), d90 \in Round2(m.d90) }

(***************************************************************************)
(* src/calculations.py: the mask-based functions                           *)
(***************************************************************************)
\* transform_contour_to_dose_grid for the identity image orientation: a point of the
\* patient system minus the image position; x and y are divided by the pixel spacing,
\* z stays in mm
TransformPoint(contour, i, image_position, pixel_spacing) ==
    [x |-> Rat(PointX(contour, i) - image_position[1], pixel_spacing[1]),
     y |-> Rat(PointY(contour, i) - image_position[2], pixel_spacing[2]),
     z |-> RSub(PointZ(contour, i), R(image_position[3]))]

transform_contour_to_dose_grid(contour_data, image_position, pixel_spacing) ==
    [k \in 1 .. Len(contour_data) |->
        [i \in 1 .. PointCount(contour_data[k]) |->
            TransformPoint(contour_data[k], i, image_position, pixel_spacing)]]

\* (np.abs(z_offsets - z_mm)).argmin(): the first index (from 0) of the smallest distance
ArgMinDistance(z_offsets, z_mm) ==
    LET dist(i) == RAbs(RSub(R(z_offsets[i]), z_mm))
    IN  (CHOOSE i \in 1 .. Len(z_offsets) :
            /\ \A j \in 1 .. Len(z_offsets) : RLe(dist(i), dist(j))
            /\ \A j \in 1 .. i - 1 : RLt(dist(i), dist(j))) - 1

\* np.clip(v, 0, high)
Clip(v, high) == IF RLt(v, R(0)) THEN R(0) ELSE IF RLt(R(high), v) THEN R(high) ELSE v

\* draw.polygon(y, x, shape) for a rectangle with its sides along the axes: the pixels
\* whose centre lies inside it, and the pixels on its edge when the library fills those
draw_polygon(y_voxels, x_voxels, slice_shape, fills_edge) ==
    LET idx == DOMAIN x_voxels
        x_min == CHOOSE v \in {x_voxels[i] : i \in idx} : \A i \in idx : RLe(v, x_voxels[i])
        x_max == CHOOSE v \in {x_voxels[i] : i \in idx} : \A i \in idx : RLe(x_voxels[i], v)
        y_min == CHOOSE v \in {y_voxels[i] : i \in idx} : \A i \in idx : RLe(v, y_voxels[i])
        y_max == CHOOSE v \in {y_voxels[i] : i \in idx} : \A i \in idx : RLe(y_voxels[i], v)
        Within(lo, v, hi) == IF fills_edge THEN RLe(lo, R(v)) /\ RLe(R(v), hi)
                             ELSE RLt(lo, R(v)) /\ RLt(R(v), hi)
    IN  {<<r, c>> \in (0 .. slice_shape[1] - 1) \X (0 .. slice_shape[2] - 1) :
            Within(y_min, r, y_max) /\ Within(x_min, c, x_max)}

\* lines 47-48: the slice of a polygon, from the z of its first point
SliceOfContour(contour_points, grid_frame_offset_vector) ==
    ArgMinDistance(grid_frame_offset_vector, contour_points[1].z)

\* lines 44-55 for one polygon: the voxels it sets
ContourVoxels(contour_points, dose_grid_shape, grid_frame_offset_vector, fills_edge) ==
    LET z_slice_index == SliceOfContour(contour_points, grid_frame_offset_vector)
        slice_shape == <<dose_grid_shape[2], dose_grid_shape[3]>>
        y_voxels_clipped == [i \in DOMAIN contour_points |-> Clip(contour_points[i].y, slice_shape[1] - 1)]
        x_voxels_clipped == [i \in DOMAIN contour_points |-> Clip(contour_points[i].x, slice_shape[2] - 1)]
    IN  IF z_slice_index >= dose_grid_shape[1] THEN {}
        ELSE {<<z_slice_index, rc[1], rc[2]>> :
                 rc \in draw_polygon(y_voxels_clipped, x_voxels_clipped, slice_shape, fills_edge)}

\* (mutant: the fill of a polygon replaces the mask)
MaskAssign_Overwrite(mask, voxels) == voxels

\* line 55, mask[z_slice_index, rr, cc] = True: the voxels that are True afterwards
MaskAssign(mask, voxels) == mask \cup voxels

\* lines 44-55: the loop over the contours from the k-th on
RECURSIVE MaskLoop(_, _, _, _, _, _)
MaskLoop(transformed_contours, k, mask, dose_grid_shape, grid_frame_offset_vector, fills_edge) ==
    IF k > Len(transformed_contours) THEN mask
    ELSE MaskLoop(transformed_contours, k + 1,
                  MaskAssign(mask, ContourVoxels(transformed_contours[k], dose_grid_shape,
                                                 grid_frame_offset_vector, fills_edge)),
                  dose_grid_shape, grid_frame_offset_vector, fills_edge)

\* create_mask_from_contours: the voxels of the mask that are True
create_mask_from_contours(transformed_contours, dose_grid_shape, grid_frame_offset_vector, fills_edge) ==
    MaskLoop(transformed_contours, 1, {}, dose_grid_shape, grid_frame_offset_vector, fills_edge)

\* round(x) of a positive x: the nearest integer, both neighbours on an exact tie
RoundInt(x) ==
    LET q == x.n \div x.d
        rem == x.n % x.d
    IN  IF 2 * rem < x.d THEN {q} ELSE IF 2 * rem > x.d THEN {q + 1} ELSE {q, q + 1}

\* np.sort(doses)[::-1] of the doses of a set of voxels
RECURSIVE SortedDescending(_, _)
SortedDescending(voxels, dose_of) ==
    IF voxels = {} THEN <<>>
    ELSE LET hottest == CHOOSE v \in voxels : \A w \in voxels : RLe(dose_of[w], dose_of[v])
         IN  <<dose_of[hottest]>> \o SortedDescending(voxels \ {hottest}, dose_of)

\* sorted_doses[i] of Python: a negative index counts from the end
PythonIndex(sequence, i) == IF i < 0 THEN sequence[Len(sequence) + i + 1] ELSE sequence[i + 1]

D2CC_VOLUME == 2

\* (mutant: the hottest voxel is reported)
D2ccOfMask_Hottest(sorted_doses, voxels_for_2cc) == sorted_doses[1]

\* line 79
D2ccOfMask(sorted_doses, voxels_for_2cc) == PythonIndex(sorted_doses, voxels_for_2cc - 1)

\* lines 63 and 72-87 for one structure with a mask that is not empty: the records it
\* can get
MaskRecords(mask, grid, number_of_fractions) ==
    LET slice_thickness == Abs(grid.grid_frame_offset_vector[2] - grid.grid_frame_offset_vector[1])
        voxel_volume_cc == Rat(grid.pixel_spacing[1] * grid.pixel_spacing[2] * slice_thickness, MM3_PER_CC)
        dose_of == [v \in mask |-> RMul(R(grid.raw[v]), grid.dose_scaling)]
        organ_volume_cc == RMul(R(Cardinality(mask)), voxel_volume_cc)
        d2ccs == IF RLe(R(D2CC_VOLUME), organ_volume_cc)
                 THEN {D2ccOfMask(SortedDescending(mask, dose_of), voxels_for_2cc) :
                          voxels_for_2cc \in RoundInt(RDiv(R(D2CC_VOLUME), voxel_volume_cc))}
                 ELSE {R(0)}
    IN  UNION {{[volume_cc |-> vol, d2cc_gy_per_fraction |-> d, total_d2cc_gy |-> t] :
                   vol \in Round2(organ_volume_cc), d \in Round2(d2cc),
                   t \in Round2(RMul(d2cc, R(number_of_fractions)))} : d2cc \in d2ccs}

\* lines 69-70
SkipEmptyMask(mask) == mask = {}

\* get_dvh of src/calculations.py: the results it can return for the structures from
\* the k-th on, appended to those so far
RECURSIVE MaskGetDvh(_, _, _, _, _, _)
MaskGetDvh(structures, k, grid, fills_edge, number_of_fractions, dvh_results) ==
    IF k > Len(structures) THEN {dvh_results}
    ELSE LET name == structures[k][1]
             transformed_contours == transform_contour_to_dose_grid(structures[k][2].ContourData,
                                         grid.image_position, grid.pixel_spacing)
             mask == create_mask_from_contours(transformed_contours, grid.shape,
                                               grid.grid_frame_offset_vector, fills_edge)
         IN  IF SkipEmptyMask(mask)
             THEN MaskGetDvh(structures, k + 1, grid, fills_edge, number_of_fractions, dvh_results)
             ELSE UNION {MaskGetDvh(structures, k + 1, grid, fills_edge, number_of_fractions,
                                    Append(dvh_results, <<name, rec>>)) :
                            rec \in MaskRecords(mask, grid, number_of_fractions)}

(***************************************************************************)
(* src/calculations.py: transform_contour_to_dose_grid for any orientation *)
(***************************************************************************)
\* np.cross(row_vec, col_vec)
Cross(a, b) ==
    <<RSub(RMul(a[2], b[3]), RMul(a[3], b[2])),
      RSub(RMul(a[3], b[1]), RMul(a[1], b[3])),
      RSub(RMul(a[1], b[2]), RMul(a[2], b[1]))>>

\* np.array([row_vec, col_vec, slice_vec]).T: the three vectors are the columns
RotationMatrix(image_orientation) ==
    LET row_vec == SubSeq(image_orientation, 1, 3)
        col_vec == SubSeq(image_orientation, 4, 6)
        slice_vec == Cross(row_vec, col_vec)
    IN  [i \in 1 .. 3 |-> <<row_vec[i], col_vec[i], slice_vec[i]>>]

Det2(a, b, c, d) == RSub(RMul(a, d), RMul(b, c))
Next3(i) == (i % 3) + 1
\* the cofactor of the element in row i and column j of a 3 x 3 matrix
Cofactor(m, i, j) ==
    Det2(m[Next3(i)][Next3(j)], m[Next3(i)][Next3(Next3(j))],
         m[Next3(Next3(i))][Next3(j)], m[Next3(Next3(i))][Next3(Next3(j))])
Det3(m) ==
    RAdd(RAdd(RMul(m[1][1], Cofactor(m, 1, 1)), RMul(m[1][2], Cofactor(m, 1, 2))),
         RMul(m[1][3], Cofactor(m, 1, 3)))

\* the product of a 3 x 3 matrix and a vector
MatVec(m, v) == [i \in 1 .. 3 |-> RAdd(RAdd(RMul(m[i][1], v[1]), RMul(m[i][2], v[2])), RMul(m[i][3], v[3]))]

\* (mutant: the inverse without the image position)
InverseOffset_Zero(inverse_rotation, image_position) == <<R(0), R(0), R(0)>>

\* the last column of the inverse of the affine matrix
InverseOffset(inverse_rotation, image_position) ==
    LET moved == MatVec(inverse_rotation, image_position)
    IN  <<RNeg(moved[1]), RNeg(moved[2]), RNeg(moved[3])>>

\* np.linalg.inv(affine_matrix) of the matrix with the rotation in its upper left and
\* the image position in its last column: LinAlgError when it is singular
InverseAffine(image_orientation, image_position) ==
    LET rotation_matrix == RotationMatrix(image_orientation)
        det == Det3(rotation_matrix)
        inverse_rotation == [i \in 1 .. 3 |-> [j \in 1 .. 3 |-> RDiv(Cofactor(rotation_matrix, j, i), det)]]
    IN  IF det = R(0) THEN [exc |-> "LinAlgError"]
        ELSE [exc |-> "none", rotation |-> inverse_rotation,
              offset |-> InverseOffset(inverse_rotation, image_position)]

\* the affine matrix applied to a point: rotation and image position
ForwardAffine(image_orientation, image_position, point) ==
    LET moved == MatVec(RotationMatrix(image_orientation), point)
    IN  [i \in 1 .. 3 |-> RAdd(moved[i], image_position[i])]

\* lines 30-31 for one point: the inverse affine applied to it
InversePoint(inv_affine_matrix, point) ==
    LET moved == MatVec(inv_affine_matrix.rotation, point)
    IN  [i \in 1 .. 3 |-> RAdd(moved[i], inv_affine_matrix.offset[i])]

\* lines 34-36: x is divided by pixel_spacing[0], y by pixel_spacing[1]
ScalePoint(voxel_point, pixel_spacing) ==
    <<RDiv(voxel_point[1], pixel_spacing[1]), RDiv(voxel_point[2], pixel_spacing[2]), voxel_point[3]>>

\* the points of a contour as vectors
ContourPoints(contour) ==
    [i \in 1 .. PointCount(contour) |-> <<R(PointX(contour, i)), R(PointY(contour, i)), PointZ(contour, i)>>]

\* transform_contour_to_dose_grid(contour_data, image_position, pixel_spacing, image_orientation)
TransformContours(contour_data, image_position, pixel_spacing, image_orientation) ==
    LET inv_affine_matrix == InverseAffine(image_orientation, image_position)
    IN  IF inv_affine_matrix.exc # "none" THEN [exc |-> inv_affine_matrix.exc]
        ELSE [exc |-> "none",
              transformed_contours |->
                  [k \in DOMAIN contour_data |->
                      [i \in 1 .. PointCount(contour_data[k]) |->
                          ScalePoint(InversePoint(inv_affine_matrix, ContourPoints(contour_data[k])[i]),
                                     pixel_spacing)]]]

(***************************************************************************)
(* The callers' inputs                                                     *)
(***************************************************************************)
MaxFractions == 4
MaxDoseHalfGy == 14

Fractions == 0 .. MaxFractions
Doses == {Centi(50 * i) : i \in 0 .. MaxDoseHalfGy} \cup {Centi(333)}
Organs == {"Bladder", "Hrctv", "Ovary"}
AlphaBetaArgs == {None, Some(EmbraceAlphaBeta), Some(CustomAlphaBeta), Some(NoDefaultAlphaBeta)}
EbrtDoses == {R(0), R(45), Centi(5040)}
\* prior BED: none, a two-decimal value, and a sum of per-fraction BEDs with more decimals
PreviousBeds == {R(0), R(10), Centi(3333), Rat(33337, 1000)}
\* the D2cc limits of the templates, and limits the EBRT dose alone exhausts
Eqd2Limits == {R(40), R(45), R(65), R(70), R(80), R(90)}

\* main's variables in the runs that call the functions directly
AbsentArg == [has |-> FALSE, value |-> None]
NoPreviousData == [kind |-> "none"]
MainNotRun ==
    /\ args_ab = AbsentArg /\ args_prev = NoPreviousData
    /\ current_ab = EmptyDict /\ previous_brachy_bed_per_organ = EmptyDict /\ main_exc = "none"

NoContourSequence == [has_sequence |-> FALSE, ContourSequence |-> <<>>]
NotCalled == [exc |-> "not called"]
DvhcalcRaises == [raises |-> TRUE, dvh |-> None]
VolumesNotRun ==
    /\ roi = NoContourSequence /\ structure_data = NotCalled /\ volumes = NotCalled
    /\ dvhcalc_ret = DvhcalcRaises /\ requested_cc = R(0) /\ d_volume_ret = NotCalled

NamesNotRun == raw_name = <<>> /\ normalized = <<>> /\ variant = "" /\ variant_ret = <<>>

\* the variables of the geometry and DVH functions in the runs that do not call them
NoDoseGrid == [shape |-> <<0, 0, 0>>]
MaskNotRun ==
    dose_grid = NoDoseGrid /\ edge_pixels = FALSE /\ mask_ret = NotCalled /\ transform_ret = NotCalled
\* the module-level templates as config.py defines them, and no call made yet
LateNotRun ==
    /\ module_templates = ConfigTemplates /\ call_log = <<>> /\ confirmed_mapping = None
    /\ point_arg = <<>> /\ point_ret = NotCalled
RestNotRun == NamesNotRun /\ VolumesNotRun /\ MaskNotRun /\ LateNotRun

InitRadio ==
    /\ fn \in {"calculate_bed_and_eqd2", "calculate_point_dose_bed_eqd2", "calculate_dose_to_meet_constraint"}
    /\ pc = "ready"
    /\ fractions \in Fractions
    /\ organ \in Organs
    /\ ebrt \in EbrtDoses
    /\ prior_bed \in PreviousBeds
    /\ ab_table \in AlphaBetaArgs
    /\ IF fn = "calculate_dose_to_meet_constraint"
       THEN dose = R(0) /\ eqd2_limit \in Eqd2Limits
       ELSE dose \in Doses /\ eqd2_limit = R(0)
    /\ bed_ret = NoBedResult
    /\ solve_ret = NoSolveResult
    /\ dvh = <<>> /\ points = <<>> /\ constraints_arg = None /\ mapping_arg = None
    /\ eval_ret = NoEvalResult
    /\ MainNotRun /\ RestNotRun

\* get_dvh, lines 271-274: total dose = dose per fraction * number of fractions
CallBedAndEqd2 ==
    /\ pc = "ready" /\ fn = "calculate_bed_and_eqd2"
    /\ bed_ret' \in calculate_bed_and_eqd2(RMul(dose, R(fractions)), dose, organ, ebrt, prior_bed, ab_table)
    /\ pc' = "done"
    /\ UNCHANGED <<fn, fractions, dose, organ, ebrt, prior_bed, ab_table, eqd2_limit, solve_ret>>
    /\ UNCHANGED <<evalVars, mainVars, restVars>>

CallPointDose ==
    /\ pc = "ready" /\ fn = "calculate_point_dose_bed_eqd2"
    /\ bed_ret' \in calculate_point_dose_bed_eqd2(dose, fractions, organ, ebrt, prior_bed, ab_table)
    /\ pc' = "done"
    /\ UNCHANGED <<fn, fractions, dose, organ, ebrt, prior_bed, ab_table, eqd2_limit, solve_ret>>
    /\ UNCHANGED <<evalVars, mainVars, restVars>>

CallDoseToMeetConstraint ==
    /\ pc = "ready" /\ fn = "calculate_dose_to_meet_constraint"
    /\ solve_ret' \in calculate_dose_to_meet_constraint(eqd2_limit, organ, fractions, ebrt, prior_bed, ab_table)
    /\ pc' = "done"
    /\ UNCHANGED <<fn, fractions, dose, organ, ebrt, prior_bed, ab_table, eqd2_limit, bed_ret>>
    /\ UNCHANGED <<evalVars, mainVars, restVars>>

NextRadio == CallBedAndEqd2 \/ CallPointDose \/ CallDoseToMeetConstraint

Init == InitRadio

Next == NextRadio

Spec == Init /\ [][Next]_vars

(***************************************************************************)
(* The callers of get_dvh and evaluate_constraints                         *)
(***************************************************************************)
\* the constraint table in the shape evaluate_constraints reads: organ -> D2cc limits,
\* and the target metrics under their own keys
FlatConstraints ==
    [Bladder |-> [D2cc |-> [max |-> R(80), unit |-> "Gy"]],
     Rectum |-> [D2cc |-> [warning |-> R(65), max |-> R(70), unit |-> "Gy"]]] @@
    ("HRCTV D90" :> [min |-> R(85), max |-> R(90), unit |-> "Gy"]) @@
    ("HRCTV D98" :> [min |-> R(75), unit |-> "Gy"]) @@
    ("GTV D98" :> [min |-> R(95), unit |-> "Gy"])

\* the same with a D90 range without upper limit
FlatConstraintsOpenD90 ==
    [Rectum |-> [D2cc |-> [warning |-> R(65), max |-> R(70), unit |-> "Gy"]]] @@
    ("HRCTV D90" :> [min |-> R(85), unit |-> "Gy"])

ConstraintArgs == {None, Some(EmbraceConstraints), Some(FlatConstraints), Some(FlatConstraintsOpenD90)}

StructureNames == {"Bladder", "bladder", "Bladder [cm3]", " rectum", "Hrctv", "GTV", "Ovary"}

\* EQD2 values at, just below and just above the limits of the tables
Eqd2Values ==
    {R(60), R(65), Centi(6501), R(70), Centi(7001), R(75), Centi(7499), R(80), Centi(8001),
     Centi(8499), R(85), R(90), Centi(9001), Centi(9440), R(95)}
Eqd2D90Values == {Centi(8499), R(85), R(90), Centi(9001)}

PointInputs == {<<>>, <<[name |-> "RV", EQD2 |-> R(65)]>>, <<[name |-> "RV", EQD2 |-> Centi(6501)]>>}
MappingArgs == {None, Some("RV" :> "RV Point")}

\* dvh_results a caller passes: one organ with its EQD2 per metric
DvhInputs ==
    { << <<name, [eqd2_d2cc |-> v, eqd2_d90 |-> u, eqd2_d98 |-> v]>> >> :
        name \in StructureNames, v \in Eqd2Values, u \in Eqd2D90Values }

\* the doses get_dvh is run on: the bladder scenario among them
DvhDoses == {R(0), R(5), Centi(650), R(7)}

InitEval ==
    /\ fn \in {"get_dvh", "evaluate_constraints"}
    /\ pc = "ready"
    /\ MainNotRun /\ RestNotRun
    /\ prior_bed = R(0) /\ eqd2_limit = R(0)
    /\ bed_ret = NoBedResult /\ solve_ret = NoSolveResult /\ eval_ret = NoEvalResult
    /\ constraints_arg \in ConstraintArgs
    /\ IF fn = "get_dvh"
       THEN /\ dvh = <<>> /\ points = <<>> /\ mapping_arg = None
            /\ organ \in StructureNames
            /\ dose \in DvhDoses
            /\ fractions \in 1 .. MaxFractions
            /\ ebrt \in {R(0), R(45)}
            /\ ab_table \in {None, Some(CustomAlphaBeta)}
       ELSE /\ dvh \in DvhInputs /\ points \in PointInputs /\ mapping_arg \in MappingArgs
            /\ organ = "Bladder" /\ dose = R(0) /\ fractions = 1 /\ ebrt = R(0) /\ ab_table = None

\* get_dvh on one structure, without prior brachytherapy
CallGetDvh ==
    /\ pc = "ready" /\ fn = "get_dvh"
    /\ \E r \in get_dvh(organ, dose, fractions, ebrt, EmptyDict, ab_table) :
          /\ dvh' = r.items
          /\ pc' = IF r.exc = "none" THEN "evaluate" ELSE "raised"
    /\ UNCHANGED <<fn, fractions, dose, organ, ebrt, prior_bed, ab_table, eqd2_limit, bed_ret, solve_ret>>
    /\ UNCHANGED <<points, constraints_arg, mapping_arg, eval_ret>>
    /\ UNCHANGED <<mainVars, restVars>>

CallEvaluateConstraints ==
    /\ \/ pc = "ready" /\ fn = "evaluate_constraints"
       \/ pc = "evaluate"
    /\ eval_ret' = evaluate_constraints(dvh, points, constraints_arg, None, mapping_arg)
    /\ pc' = "done"
    /\ UNCHANGED <<fn, fractions, dose, organ, ebrt, prior_bed, ab_table, eqd2_limit, bed_ret, solve_ret>>
    /\ UNCHANGED <<dvh, points, constraints_arg, mapping_arg>>
    /\ UNCHANGED <<mainVars, restVars>>

NextEval == CallGetDvh \/ CallEvaluateConstraints

SpecEval == InitEval /\ [][NextEval]_vars

(***************************************************************************)
(* Properties of the radiobiological conversions                           *)
(***************************************************************************)
Thousandths(x) == x.n * (1000 \div x.d)

Returned(f) == pc = "done" /\ fn = f
BedReturned(f) == Returned(f) /\ bed_ret.exc = "none"
AB == AlphaBetaLookup(organ, ab_table)

\* 100 * alpha_beta * (brachytherapy BED in hundredths of a Gy), as an integer
BrachyNum == fractions * Hundredths(dose) * (100 * AB + Hundredths(dose))
\* 1000 * alpha_beta * (total BED in hundredths), EBRT taken at 2 Gy per fraction
TotalNum == 10 * BrachyNum + 1000 * Hundredths(ebrt) * (AB + 2) + 100 * AB * Thousandths(prior_bed)

\* v (in hundredths) is num/den rounded to the nearest integer
IsRounded(v, num, den) == 2 * Abs(v * den - num) <= den

\* C1: calculate_bed_and_eqd2 called with total_dose = N*d returns the brachytherapy
\* BED N*d*(1 + d/ab), the EBRT BED ebrt*(1 + 2/ab), the total BED (their sum plus the
\* prior BED) and the EQD2 total/(1 + 2/ab), each rounded to two decimals; for ab = 3,
\* d = 6, N = 1 without EBRT and prior dose it returns BED 18 and EQD2 10.8.
C1_BedAndEqd2Formula ==
    BedReturned("calculate_bed_and_eqd2") =>
        /\ IsRounded(Hundredths(bed_ret.bed_brachy), BrachyNum, 100 * AB)
        /\ IsRounded(Hundredths(bed_ret.bed_ebrt), Hundredths(ebrt) * (AB + 2), AB)
        /\ IsRounded(Hundredths(bed_ret.bed_previous_brachy), Thousandths(prior_bed), 10)
        /\ IsRounded(Hundredths(bed_ret.total_bed), TotalNum, 1000 * AB)
        /\ IsRounded(Hundredths(bed_ret.eqd2), TotalNum, 1000 * (AB + 2))
        /\ (AB = 3 /\ dose = R(6) /\ fractions = 1 /\ ebrt = R(0) /\ prior_bed = R(0)
              => bed_ret.total_bed = R(18) /\ bed_ret.eqd2 = Centi(1080))

C1_Witness ==
    /\ BedReturned("calculate_bed_and_eqd2")
    /\ AB = 3 /\ dose = R(6) /\ fractions = 1 /\ ebrt = R(0) /\ prior_bed = R(0)
    /\ bed_ret.total_bed = R(18) /\ bed_ret.eqd2 = Centi(1080)

BedFunctions == {"calculate_bed_and_eqd2", "calculate_point_dose_bed_eqd2"}
ReturnedSum == Hundredths(bed_ret.bed_brachy) + Hundredths(bed_ret.bed_ebrt) + Hundredths(bed_ret.bed_previous_brachy)

\* the call has one possible result: no value lies exactly halfway between two hundredths
\* (where the float arithmetic of the source decides the rounding)
BedCallOutcomes ==
    IF fn = "calculate_bed_and_eqd2"
    THEN calculate_bed_and_eqd2(RMul(dose, R(fractions)), dose, organ, ebrt, prior_bed, ab_table)
    ELSE calculate_point_dose_bed_eqd2(dose, fractions, organ, ebrt, prior_bed, ab_table)
NoTie == Cardinality(BedCallOutcomes) = 1

\* C2 as claimed: the returned total BED is exactly the sum of the three returned
\* components and the returned EQD2 is the returned total BED / (1 + 2/ab), to two decimals
\* (stated for the calls without a rounding tie).
C2_Original ==
    \A f \in BedFunctions : BedReturned(f) /\ NoTie =>
        /\ Hundredths(bed_ret.total_bed) = ReturnedSum
        /\ bed_ret.eqd2 \in Round2(Eqd2Of(bed_ret.total_bed, AB))

\* C2, amended: the returned values are each rounded to two decimals, so the returned
\* total BED is within 0.02 Gy of the sum of the three returned components and the returned
\* EQD2 is within 0.01 Gy of the returned total BED / (1 + 2/ab); all are returned.
C2_SumUpToRounding ==
    \A f \in BedFunctions : BedReturned(f) =>
        /\ Abs(Hundredths(bed_ret.total_bed) - ReturnedSum) <= 2
        /\ Abs(Hundredths(bed_ret.eqd2) * (AB + 2) - Hundredths(bed_ret.total_bed) * AB) <= AB + 2
        /\ DOMAIN bed_ret = {"exc", "total_bed", "eqd2", "bed_brachy", "bed_ebrt", "bed_previous_brachy"}

\* a call whose returned total differs from the sum of the returned components
C2_Witness ==
    /\ BedReturned("calculate_point_dose_bed_eqd2") /\ NoTie
    /\ Hundredths(bed_ret.total_bed) # ReturnedSum
    /\ bed_ret.bed_ebrt.n > 0 /\ bed_ret.bed_previous_brachy.n > 0 /\ bed_ret.bed_brachy.n > 0

SolvedDose == Returned("calculate_dose_to_meet_constraint") /\ solve_ret.kind = "dose" /\ fractions >= 1

\* the tuples calculate_bed_and_eqd2 returns when fed the solver's dose
RoundTrip == calculate_bed_and_eqd2(RMul(solve_ret.dose, R(fractions)), solve_ret.dose, organ, ebrt, prior_bed, ab_table)

SolveOutcomes == calculate_dose_to_meet_constraint(eqd2_limit, organ, fractions, ebrt, prior_bed, ab_table)

\* C3 as claimed: the dose returned by calculate_dose_to_meet_constraint, fed back into
\* calculate_bed_and_eqd2, reproduces the target EQD2 within 1e-3 Gy
\* (stated for the calls without a rounding tie).
C3_Original ==
    SolvedDose /\ Cardinality(SolveOutcomes) = 1 /\ Cardinality(RoundTrip) = 1 => \A r \in RoundTrip : RLe(RAbs(RSub(r.eqd2, eqd2_limit)), Rat(1, 1000))

\* C3, amended: the solver rounds the dose d to 0.01 Gy and the converter rounds the EQD2
\* to 0.01 Gy, so the round trip reproduces the target EQD2 within
\* 0.005 + 0.005*N*(1 + (2d + 0.005)/ab)/(1 + 2/ab) Gy.
C3_RoundTripUpToRounding ==
    SolvedDose => \A r \in RoundTrip :
        400 * (AB + 2) * Abs(Hundredths(r.eqd2) - Hundredths(eqd2_limit))
            <= 200 * (AB + 2) + fractions * (200 * AB + 4 * Hundredths(solve_ret.dose) + 1)

\* a positive dose whose round trip misses the target by more than 1e-3 Gy
C3_Witness ==
    /\ SolvedDose /\ solve_ret.dose.n > 0 /\ ebrt.n > 0 /\ prior_bed.n > 0
    /\ Cardinality(SolveOutcomes) = 1
    /\ \E r \in RoundTrip : r.eqd2 # eqd2_limit

\* 1000 * alpha_beta * (BED budget left for the new fractions, in hundredths of a Gy)
NeededNum == 10 * (Hundredths(eqd2_limit) - Hundredths(ebrt)) * (AB + 2) - AB * Thousandths(prior_bed)

SolveReturned == Returned("calculate_dose_to_meet_constraint") /\ solve_ret.kind # "KeyError"

\* C4: when EBRT plus prior brachytherapy already use up the BED budget of the limit
\* (remaining budget <= 0), the solver reports an allowed dose of 0, a result distinct
\* from "no solution".
C4_ExhaustedBudgetIsZeroDose ==
    SolveReturned /\ fractions >= 1 /\ NeededNum <= 0 =>
        solve_ret.kind = "dose" /\ solve_ret.dose = R(0)

\* C5: the solver returns either a finite dose >= 0 or the explicit "constraint already
\* exceeded" outcome, never NaN and never a negative dose.
C5_NoNaNNoNegativeDose ==
    SolveReturned =>
        /\ solve_ret.kind \in {"dose", "None"}
        /\ solve_ret.kind = "dose" => solve_ret.dose.n >= 0

\* C7: the EBRT BED is ebrt_dose*(1 + 2/ab) in calculate_bed_and_eqd2, in
\* calculate_point_dose_bed_eqd2 and in the budget of calculate_dose_to_meet_constraint.
C7_OneEbrtFractionSize ==
    /\ \A f \in BedFunctions : BedReturned(f) /\ NoTie =>
          IsRounded(Hundredths(bed_ret.bed_ebrt), Hundredths(ebrt) * (AB + 2), AB)
    /\ SolveReturned =>
          BedBrachyNeeded(eqd2_limit, ebrt, prior_bed, AB) = Rat(NeededNum, 100000 * AB)

(***************************************************************************)
(* src/src/main.py: main, from the alpha/beta table to the metric loop     *)
(***************************************************************************)
\* lines 244-251: a truthy args.alpha_beta_ratios is copied and completed with the
\* template's "Default"; an absent, None or empty one is replaced by the template table
BuildAlphaBetaTable(arg) ==
    IF arg.has /\ arg.value # None /\ DOMAIN arg.value[1] # {}
    THEN IF "Default" \notin DOMAIN arg.value[1]
         THEN arg.value[1] @@ ("Default" :> EmbraceAlphaBeta["Default"])
         ELSE arg.value[1]
    ELSE EmbraceAlphaBeta

\* line 261 (also 271): current_alpha_beta_ratios.get(organ, current_alpha_beta_ratios["Default"])
MainAlphaBeta(table, organ_key) == AlphaBetaLookup(organ_key, Some(table))

\* lines 258-262, the HTML path: parse_html_report gives organ -> EQD2, and each entry
\* is stored as the float eqd2 * (1 + 2 / alpha_beta)
HtmlPreviousBed(report, table) ==
    [o \in DOMAIN report |->
        BareFloat(RMul(report[o], RAdd(R(1), RDiv(Tenths(EQD2_FRACTION), R(MainAlphaBeta(table, o))))))]

\* lines 276-280: the BED of the listed fractions, dose_fx * (1 + dose_fx / alpha_beta) each
RECURSIVE SumFractionBed(_, _)
SumFractionBed(dose_list, alpha_beta) ==
    IF dose_list = <<>> THEN R(0)
    ELSE RAdd(RMul(Head(dose_list), RAdd(R(1), RDiv(Head(dose_list), R(alpha_beta)))),
              SumFractionBed(Tail(dose_list), alpha_beta))

\* lines 264-281, the JSON path: organ -> {"d2cc": summed BED of its D2cc per fraction}
JsonPreviousBed(dvh_results, table) ==
    [o \in DOMAIN dvh_results |-> MetricDict(SumFractionBed(dvh_results[o], MainAlphaBeta(table, o)))]

\* lines 255-290
LoadPreviousBrachy(data, table) ==
    CASE data.kind = "html" -> HtmlPreviousBed(data.report, table)
      [] data.kind = "json" -> JsonPreviousBed(data.dvh_results, table)
      [] OTHER -> EmptyDict

\* lines 325-334 without a confirmed structure mapping: the prior BED of a metric is taken
\* only from an entry that is a dict
MainPreviousBed(prev, organ_key, metric) ==
    IF Has(prev, organ_key) /\ prev[organ_key].kind = "dict" /\ Has(prev[organ_key], metric)
    THEN prev[organ_key][metric] ELSE R(0)

\* lines 312-347 for the d2cc metric of one organ: the record after the loop
MainMetricLoop(organ_key, data, number_of_fractions_for_calc, ebrt_dose, prev, table) ==
    LET dose_per_fraction == data.d2cc_gy_per_fraction
        total_dose == RMul(dose_per_fraction, R(number_of_fractions_for_calc))
        beds == calculate_bed_and_eqd2(total_dose, dose_per_fraction, organ_key, ebrt_dose,
                                       MainPreviousBed(prev, organ_key, "d2cc"), Some(table))
    IN  { IF r.exc # "none" THEN [exc |-> r.exc, data |-> data]
          ELSE [exc |-> "none",
                data |-> ("bed_brachy_d2cc" :> r.bed_brachy) @@
                         [data EXCEPT !.bed_d2cc = r.total_bed, !.eqd2_d2cc = r.eqd2]] : r \in beds }

\* the inputs of main
ArgsAlphaBeta ==
    {AbsentArg} \cup
    {[has |-> TRUE, value |-> v] :
        v \in {None, Some(EmptyDict), Some(NoDefaultAlphaBeta), Some(CustomAlphaBeta), Some(CylinderAlphaBeta)}}

\* a parsed report of an earlier plan (organ -> EQD2), and earlier fractions as JSON
ArgsPreviousBrachy ==
    {NoPreviousData,
     [kind |-> "html", report |-> [Bladder |-> R(10)]],
     [kind |-> "html", report |-> [Bladder |-> Centi(2512), Hrctv |-> R(30)]],
     [kind |-> "html", report |-> [Rectum |-> R(12)]],
     [kind |-> "html", report |-> EmptyDict],
     [kind |-> "json", dvh_results |-> [Bladder |-> <<R(5)>>]],
     [kind |-> "json", dvh_results |-> [Bladder |-> <<R(5), R(6)>>, Ovary |-> <<R(2)>>]]}

MainStructures == {"Bladder", "BLADDER (2)", "HRCTV", "Ovary"}
MainDoses == {R(0), R(5), Centi(650)}

InitMain ==
    /\ fn = "main" /\ pc = "ready"
    /\ RestNotRun
    /\ args_ab \in ArgsAlphaBeta
    /\ args_prev \in ArgsPreviousBrachy
    /\ organ \in MainStructures
    /\ dose \in MainDoses
    /\ fractions \in {1, MaxFractions}
    /\ ebrt \in {R(0), R(45)}
    /\ current_ab = EmptyDict /\ previous_brachy_bed_per_organ = EmptyDict /\ main_exc = "none"
    /\ prior_bed = R(0) /\ eqd2_limit = R(0) /\ ab_table = None
    /\ bed_ret = NoBedResult /\ solve_ret = NoSolveResult /\ eval_ret = NoEvalResult
    /\ dvh = <<>> /\ points = <<>> /\ constraints_arg = None /\ mapping_arg = None

MainUnchanged ==
    UNCHANGED <<fn, fractions, dose, organ, ebrt, prior_bed, ab_table, eqd2_limit, bed_ret, solve_ret,
                points, constraints_arg, mapping_arg, eval_ret, args_ab, args_prev, restVars>>

\* lines 244-251
MainAlphaBetaStep ==
    /\ fn = "main" /\ pc = "ready"
    /\ current_ab' = BuildAlphaBetaTable(args_ab)
    /\ pc' = "previous"
    /\ UNCHANGED <<dvh, previous_brachy_bed_per_organ, main_exc>>
    /\ MainUnchanged

\* lines 255-290
MainPreviousStep ==
    /\ fn = "main" /\ pc = "previous"
    /\ previous_brachy_bed_per_organ' = LoadPreviousBrachy(args_prev, current_ab)
    /\ pc' = "dvh"
    /\ UNCHANGED <<dvh, current_ab, main_exc>>
    /\ MainUnchanged

\* lines 304-310: get_dvh with main's table and prior BED (the call also names an
\* ebrt_fractions argument, which the body of get_dvh does not read)
MainGetDvhStep ==
    /\ fn = "main" /\ pc = "dvh"
    /\ \E r \in get_dvh(organ, dose, fractions, ebrt, previous_brachy_bed_per_organ, Some(current_ab)) :
          /\ dvh' = r.items
          /\ main_exc' = r.exc
          /\ pc' = IF r.exc = "none" THEN "metrics" ELSE "raised"
    /\ UNCHANGED <<current_ab, previous_brachy_bed_per_organ>>
    /\ MainUnchanged

\* lines 312-347
MainMetricStep ==
    /\ fn = "main" /\ pc = "metrics"
    /\ \E r \in MainMetricLoop(dvh[1][1], dvh[1][2], fractions, ebrt, previous_brachy_bed_per_organ, current_ab) :
          /\ dvh' = << <<dvh[1][1], r.data>> >>
          /\ main_exc' = r.exc
          /\ pc' = IF r.exc = "none" THEN "done" ELSE "raised"
    /\ UNCHANGED <<current_ab, previous_brachy_bed_per_organ>>
    /\ MainUnchanged

NextMain == MainAlphaBetaStep \/ MainPreviousStep \/ MainGetDvhStep \/ MainMetricStep

SpecMain == InitMain /\ [][NextMain]_vars

(***************************************************************************)
(* Properties of evaluate_constraints                                      *)
(***************************************************************************)
Evaluated == pc = "done" /\ fn \in {"get_dvh", "evaluate_constraints"} /\ eval_ret.exc = "none"
ConstraintsUsed == IF constraints_arg = None THEN EmbraceConstraints ELSE constraints_arg[1]
Evaluation == eval_ret.constraint_evaluation

\* C6: the bladder scenario (alpha/beta 3, D2cc 6.5 Gy per fraction, 4 fractions, EBRT
\* 45 Gy) gives brachytherapy BED 82.33, EBRT BED 75, total BED 157.33 and EQD2 94.4, and
\* evaluate_constraints with the default (EMBRACE II) constraints holds a Bladder entry
\* whose D2cc verdict against the 80 Gy maximum is EQD2_met "False", status "NOT Met".
C6_BladderScenario ==
    /\ Evaluated /\ fn = "get_dvh" /\ constraints_arg = None /\ ab_table = None
    /\ organ = "Bladder" /\ dose = Centi(650) /\ fractions = 4 /\ ebrt = R(45)
    => /\ dvh[1][2].bed_this_plan = Centi(8233)
       /\ dvh[1][2].bed_ebrt = R(75)
       /\ dvh[1][2].bed_d2cc = Centi(15733)
       /\ dvh[1][2].eqd2_d2cc = Centi(9440)
       /\ Has(Evaluation, "Bladder")
       /\ Evaluation["Bladder"].EQD2_met = "False"
       /\ Evaluation["Bladder"].EQD2_status = "NOT Met"

\* the converter's part of the scenario
C6_ConverterPart ==
    /\ Evaluated /\ fn = "get_dvh" /\ ab_table = None
    /\ organ = "Bladder" /\ dose = Centi(650) /\ fractions = 4 /\ ebrt = R(45)
    => /\ dvh[1][2].bed_this_plan = Centi(8233)
       /\ dvh[1][2].bed_ebrt = R(75)
       /\ dvh[1][2].bed_d2cc = Centi(15733)
       /\ dvh[1][2].eqd2_d2cc = Centi(9440)

\* the organ evaluated and its EQD2 values, in hundredths of a Gy
EvalName == normalize_structure_name(dvh[1][1])
EvalData == dvh[1][2]
H(x) == Hundredths(x)

HasD2ccConstraint == Has(ConstraintsUsed, EvalName) /\ Has(ConstraintsUsed[EvalName], "D2cc")
D2ccLimits == ConstraintsUsed[EvalName]["D2cc"]

MainEnded == fn = "main" /\ pc \in {"done", "raised"}
MainKey == normalize_structure_name(organ)

\* the table main works from: the one it received when that is truthy, else the template
ReceivedTable ==
    IF args_ab.has /\ args_ab.value # None /\ DOMAIN args_ab.value[1] # {}
    THEN args_ab.value[1] ELSE EmbraceAlphaBeta

\* the alpha/beta the claims expect for a name
ExpectedAlphaBeta(key) ==
    IF key \in DOMAIN ReceivedTable THEN ReceivedTable[key]
    ELSE IF "Default" \in DOMAIN ReceivedTable THEN ReceivedTable["Default"]
    ELSE EmbraceAlphaBeta["Default"]

\* C8: with prior brachytherapy given as a reported EQD2 per organ (the HTML path), main
\* ends without an exception, the organ's prior BED is EQD2 * (1 + 2/ab), and the total BED
\* of the organ's D2cc is the sum of this plan's BED, the EBRT BED and that prior BED.
C8_HtmlPriorAdded ==
    MainEnded /\ args_prev.kind = "html" /\ Has(args_prev.report, MainKey) =>
        /\ main_exc = "none"
        /\ pc = "done"
        /\ LET ab == ExpectedAlphaBeta(MainKey)
               prior_h == Hundredths(args_prev.report[MainKey]) * (ab + 2)
               data == dvh[1][2]
               sum_h == (Hundredths(data.bed_brachy_d2cc) + Hundredths(data.bed_ebrt)) * ab + prior_h
           IN  Abs(Hundredths(data.bed_d2cc) * ab - sum_h) <= 2 * ab

\* C10: whatever args.alpha_beta_ratios main receives, the table it passes on has a
\* "Default" entry and keeps the entries received; no lookup raises KeyError, a name that
\* is a key of the table is computed with its own alpha/beta, and any other name with
\* the "Default" value.
C10_DefaultAlwaysPresent ==
    fn = "main" /\ pc # "ready" =>
        /\ Has(current_ab, "Default")
        /\ \A k \in DOMAIN ReceivedTable : Has(current_ab, k) /\ current_ab[k] = ReceivedTable[k]
        /\ main_exc # "KeyError"
        /\ pc \in {"metrics", "done"} =>
             LET ab == ExpectedAlphaBeta(dvh[1][1])
             IN  Hundredths(dvh[1][2].bed_ebrt) * ab = Hundredths(ebrt) * (ab + 2)

\* a table received without "Default", and a structure that is not one of its keys
C10_Witness ==
    /\ fn = "main" /\ pc = "done" /\ main_exc = "none"
    /\ args_ab.has /\ args_ab.value = Some(NoDefaultAlphaBeta)
    /\ dvh[1][1] = "Ovary" /\ ebrt = R(45)
    /\ dvh[1][2].bed_ebrt = R(75)

(***************************************************************************)
(* The callers of normalize_structure_name                                 *)
(***************************************************************************)
\* the variables of the other functions in the runs of the geometry and DVH functions
RadioNotRun ==
    /\ fractions = 1 /\ dose = R(0) /\ organ = "Bladder" /\ ebrt = R(0) /\ prior_bed = R(0)
    /\ ab_table = None /\ eqd2_limit = R(0) /\ bed_ret = NoBedResult /\ solve_ret = NoSolveResult

EvalNotRun ==
    /\ dvh = <<>> /\ points = <<>> /\ constraints_arg = None /\ mapping_arg = None
    /\ eval_ret = NoEvalResult

MaxNameLen == 4
NameAlphabet == {"a", "B", " ", "[", "]", "(", ")", "\n"}

RECURSIVE NamesUpTo(_)
NamesUpTo(n) ==
    IF n = 0 THEN {<<>>}
    ELSE LET shorter == NamesUpTo(n - 1)
         IN  shorter \cup {Append(cs, c) : cs \in shorter, c \in NameAlphabet}

\* names of an RTSTRUCT whose text holds a line break before a bracket
LineBreakNames ==
    { <<"[", "\n", "(", ")", "]">>,
      <<"B", "[", "a", "\n", "(", "a", ")", "]">> }

\* the names given to normalize_structure_name: every short text over the alphabet,
\* the structure names of the model, and names with a line break
NameInputs == NamesUpTo(MaxNameLen) \cup {w[2] : w \in Vocabulary} \cup LineBreakNames

InitNormalize ==
    /\ fn = "normalize_structure_name" /\ pc = "ready"
    /\ raw_name \in NameInputs
    /\ normalized = <<>> /\ variant = "" /\ variant_ret = <<>>
    /\ VolumesNotRun /\ MaskNotRun /\ LateNotRun
    /\ RadioNotRun /\ EvalNotRun /\ MainNotRun

NormalizeUnchanged ==
    UNCHANGED <<fn, fractions, dose, organ, ebrt, prior_bed, ab_table, eqd2_limit, bed_ret, solve_ret,
                evalVars, mainVars, raw_name, variant, variant_ret, volumeVars, maskVars, lateVars>>

\* normalize_structure_name(name)
CallNormalize ==
    /\ fn = "normalize_structure_name" /\ pc = "ready"
    /\ normalized' = <<NormalizeChars(raw_name)>>
    /\ pc' = "normalized"
    /\ NormalizeUnchanged

\* normalize_structure_name applied to its own result
CallNormalizeAgain ==
    /\ fn = "normalize_structure_name" /\ pc = "normalized"
    /\ normalized' = Append(normalized, NormalizeChars(normalized[1]))
    /\ pc' = "done"
    /\ NormalizeUnchanged

NextNormalize == CallNormalize \/ CallNormalizeAgain

SpecNormalize == InitNormalize /\ [][NextNormalize]_vars

(***************************************************************************)
(* Properties of normalize_structure_name                                  *)
(***************************************************************************)
\* C11: normalize_structure_name is idempotent: for every name, normalizing the
\* normalized name gives the normalized name again (that the same name always gives
\* the same result holds by construction: the function reads nothing but its argument).
C11_NormalizeIdempotent ==
    fn = "normalize_structure_name" /\ pc = "done" => normalized[2] = normalized[1]

\* the same for the names without a line break
C11_IdempotentOnOneLine ==
    fn = "normalize_structure_name" /\ pc = "done" /\ (\A i \in 1 .. Len(raw_name) : raw_name[i] # "\n")
        => normalized[2] = normalized[1]

(***************************************************************************)
(* Two names of one structure given to get_dvh and evaluate_constraints    *)
(***************************************************************************)
\* src/src/config.py, "Cylinder HDR" and "Custom": the constraint tables, flattened
\* the way a caller passes them to evaluate_constraints
CylinderFlatConstraints ==
    [Bladder |-> [D2cc |-> [max |-> R(80), unit |-> "Gy"]],
     Rectum |-> [D2cc |-> [warning |-> R(65), max |-> R(70), unit |-> "Gy"]],
     Sigmoid |-> [D2cc |-> [warning |-> R(65), max |-> R(70), unit |-> "Gy"]],
     Bowel |-> [D2cc |-> [warning |-> R(65), max |-> R(70), unit |-> "Gy"]]]

CustomFlatConstraints ==
    [Bladder |-> [D2cc |-> [max |-> R(80), unit |-> "Gy"]],
     Rectum |-> [D2cc |-> [max |-> R(70), unit |-> "Gy"]],
     Sigmoid |-> [D2cc |-> [max |-> R(70), unit |-> "Gy"]],
     Bowel |-> [D2cc |-> [max |-> R(65), unit |-> "Gy"]]] @@
    ("Gtv D90" :> [min |-> R(95), unit |-> "Gy"]) @@
    ("Gtv D98" :> [min |-> R(98), unit |-> "Gy"]) @@
    ("Hrctv D90" :> [min |-> R(90), unit |-> "Gy"]) @@
    ("Hrctv D98" :> [min |-> R(95), unit |-> "Gy"])

\* the structure each name of a structure set stands for: its name without bracketed
\* unit, parenthetical suffix and surrounding blanks, whatever the case of its letters
StructureOf ==
    [Bladder |-> "bladder", bladder |-> "bladder"] @@
    ("Bladder [cm3]" :> "bladder") @@ ("BLADDER (2)" :> "bladder") @@ ("Bladder (2)" :> "bladder") @@
    (" rectum" :> "rectum") @@ ("Rectum" :> "rectum") @@ ("RECTUM " :> "rectum") @@
    ("Hrctv" :> "hrctv") @@ ("HRCTV" :> "hrctv") @@ ("hrctv [cc]" :> "hrctv") @@
    ("Gtv" :> "gtv") @@ ("GTV" :> "gtv") @@ ("Ovary" :> "ovary")

VariantNames == DOMAIN StructureOf
VariantAlphaBeta == {None, Some(CylinderAlphaBeta), Some(CustomAlphaBeta)}
VariantConstraints ==
    {None, Some(FlatConstraints), Some(CylinderFlatConstraints), Some(CustomFlatConstraints)}

\* the EQD2 values of the structure that evaluate_constraints is given
VariantData == [eqd2_d2cc |-> R(68), eqd2_d90 |-> R(88), eqd2_d98 |-> R(96)]

InitVariants ==
    /\ fn = "variants" /\ pc = "ready"
    /\ organ \in VariantNames
    /\ variant \in {v \in VariantNames : StructureOf[v] = StructureOf[organ]}
    /\ ab_table \in VariantAlphaBeta
    /\ constraints_arg \in VariantConstraints
    /\ dose \in {R(5), Centi(650)} /\ fractions = MaxFractions /\ ebrt = R(45)
    /\ prior_bed = R(0) /\ eqd2_limit = R(0) /\ bed_ret = NoBedResult /\ solve_ret = NoSolveResult
    /\ dvh = <<>> /\ points = <<>> /\ mapping_arg = None /\ eval_ret = NoEvalResult
    /\ MainNotRun
    /\ raw_name = <<>> /\ normalized = <<>> /\ variant_ret = <<>>
    /\ VolumesNotRun /\ MaskNotRun /\ LateNotRun

VariantsUnchanged ==
    UNCHANGED <<fn, fractions, dose, organ, ebrt, prior_bed, ab_table, eqd2_limit, bed_ret, solve_ret,
                evalVars, mainVars, raw_name, normalized, variant, volumeVars, maskVars, lateVars>>

\* get_dvh on the structure under the given name, and evaluate_constraints on a result
\* keyed by that name
\* (the results of get_dvh are kept together: a value on a rounding tie has two)
RunVariant(name) ==
    variant_ret' = Append(variant_ret,
        [dvh |-> get_dvh(name, dose, fractions, ebrt, EmptyDict, ab_table),
         evaluation |-> evaluate_constraints(<< <<name, VariantData>> >>, <<>>, constraints_arg, None, None)])

RunFirstVariant ==
    /\ fn = "variants" /\ pc = "ready"
    /\ RunVariant(organ)
    /\ pc' = "second"
    /\ VariantsUnchanged

RunSecondVariant ==
    /\ fn = "variants" /\ pc = "second"
    /\ RunVariant(variant)
    /\ pc' = "done"
    /\ VariantsUnchanged

NextVariants == RunFirstVariant \/ RunSecondVariant

SpecVariants == InitVariants /\ [][NextVariants]_vars

\* C12: two names of one structure that differ only in a bracketed unit, a parenthetical
\* suffix, surrounding blanks or letter case are looked up under the same key: get_dvh
\* stores both under one key with the BED and EQD2 of one alpha/beta ratio, and
\* evaluate_constraints gives both the same entries, for the alpha/beta and constraint
\* tables of every template.
C12_VariantsShareKey ==
    fn = "variants" /\ pc = "done" =>
        /\ \A r \in variant_ret[1].dvh \cup variant_ret[2].dvh : r.exc = "none"
        /\ Cardinality({r.items[1][1] : r \in variant_ret[1].dvh \cup variant_ret[2].dvh}) = 1
        /\ {r.items[1][2].bed_ebrt : r \in variant_ret[1].dvh} = {r.items[1][2].bed_ebrt : r \in variant_ret[2].dvh}
        /\ {r.items[1][2].eqd2_d2cc : r \in variant_ret[1].dvh} = {r.items[1][2].eqd2_d2cc : r \in variant_ret[2].dvh}
        /\ variant_ret[1].evaluation = variant_ret[2].evaluation

\* 'Bladder [cm3]' and 'bladder' meet the same D2cc constraint with the same alpha/beta
C12_Witness ==
    /\ fn = "variants" /\ pc = "done"
    /\ organ = "Bladder [cm3]" /\ variant = "bladder"
    /\ ab_table = Some(CustomAlphaBeta) /\ constraints_arg = Some(CylinderFlatConstraints)
    /\ \A r \in variant_ret[2].dvh : r.items[1][1] = "Bladder" /\ r.items[1][2].bed_ebrt = R(90)
    /\ Has(variant_ret[2].evaluation.constraint_evaluation, "Bladder")

(***************************************************************************)
(* The callers of calculate_contour_volumes                                *)
(***************************************************************************)
MaxContours == 3

\* the contours drawn on a slice: rectangles with their sides along the axes, counter-
\* clockwise and clockwise, and a contour of two points
Rectangle(x, y, w, h, z) == <<x, y, z, x + w, y, z, x + w, y + h, z, x, y + h, z>>
RectangleClockwise(x, y, w, h, z) == <<x, y, z, x, y + h, z, x + w, y + h, z, x + w, y, z>>
TwoPoints(x, y, w, z) == <<x, y, z, x + w, y, z>>

\* the z of the slices: the planes 0, 2.5 and 5 mm, and 0.00004 mm off the first
SliceZs == {R(0), Rat(4, 100000), Rat(5, 2), R(5)}

ContourInputs ==
    UNION { {Rectangle(0, 0, 40, 30, z), RectangleClockwise(-5, 10, 20, 10, z),
             TwoPoints(0, 0, 7, z)} : z \in SliceZs }

RECURSIVE ContourSequencesUpTo(_)
ContourSequencesUpTo(n) ==
    IF n = 0 THEN {<<>>}
    ELSE LET shorter == ContourSequencesUpTo(n - 1)
         IN  shorter \cup {Append(cs, c) : cs \in shorter, c \in ContourInputs}

RoiInputs ==
    {NoContourSequence} \cup
    {[has_sequence |-> TRUE, ContourSequence |-> cs] : cs \in ContourSequencesUpTo(MaxContours)}

\* what the DVH library can return: the DVH of a structure without voxels, and a DVH of
\* 6 cc in bins of 0.01 Gy
EmptyDvh == DvhObject(R(0), <<R(0)>>, <<Rat(1, 200)>>, R(0), R(0), R(0), R(0), R(0), R(0), R(0), R(0))
SmallDvh ==
    DvhObject(R(6), <<R(6), R(6), R(4), Rat(1, 10)>>, <<Rat(1, 200), Rat(3, 200), Rat(5, 200), Rat(7, 200)>>,
              Centi(3), Centi(3), Centi(4), Centi(2), Centi(1), Centi(1), Centi(1), Centi(1))

\* the structures the whole path is run on: without a contour sequence, without
\* contours, contoured on one slice and on two
PipelineRois ==
    {NoContourSequence} \cup
    {[has_sequence |-> TRUE, ContourSequence |-> cs] :
        cs \in {<<>>, <<Rectangle(0, 0, 40, 30, R(0))>>,
                <<Rectangle(0, 0, 40, 30, R(0)), Rectangle(0, 0, 40, 30, R(5))>>}}

\* the DVH of 5 cc that all carry the dose 0.03 Gy: the cumulative volume is 5 cc up to
\* the bin of that dose, the bins beyond it are trimmed or one of them is left, and the
\* library's own statistics are all 0.03 Gy
UniformDose == Centi(3)
UniformCurve == <<R(5), R(5), R(5), R(5)>>
UniformDvh(trailing_zero) ==
    LET curve == IF trailing_zero THEN Append(UniformCurve, R(0)) ELSE UniformCurve
    IN  DvhObject(R(5), curve, [i \in DOMAIN curve |-> Rat(2 * i - 1, 200)], UniformDose, UniformDose,
                  UniformDose, UniformDose, UniformDose, UniformDose, UniformDose, UniformDose)
UniformOutcomes == {[raises |-> FALSE, dvh |-> Some(UniformDvh(t))] : t \in BOOLEAN}

DvhcalcOutcomes(roi_contour) ==
    IF ~roi_contour.has_sequence \/ roi_contour.ContourSequence = <<>>
    THEN {DvhcalcRaises, [raises |-> FALSE, dvh |-> Some(EmptyDvh)]}
    ELSE {DvhcalcRaises, [raises |-> FALSE, dvh |-> Some(SmallDvh)]} \cup UniformOutcomes

InitVolumes ==
    /\ pc = "ready"
    /\ organ \in {"Bladder", "Bladder [cm3]"}
    /\ \/ /\ fn = "calculate_contour_volumes"
          /\ roi \in RoiInputs
          /\ dvhcalc_ret = DvhcalcRaises
          /\ fractions = 1 /\ ebrt = R(0) /\ ab_table = None
       \/ /\ fn = "get_dvh"
          /\ roi \in PipelineRois
          /\ dvhcalc_ret \in DvhcalcOutcomes(roi)
          /\ fractions \in 1 .. MaxFractions
          /\ ebrt \in IF dvhcalc_ret \in UniformOutcomes THEN {R(0)} ELSE {R(0), R(45)}
          /\ ab_table \in {None, Some(CustomAlphaBeta)}
    /\ dose = R(0) /\ prior_bed = R(0)
    /\ eqd2_limit = R(0) /\ bed_ret = NoBedResult /\ solve_ret = NoSolveResult
    /\ EvalNotRun /\ MainNotRun /\ NamesNotRun /\ MaskNotRun /\ LateNotRun
    /\ structure_data = NotCalled /\ volumes = NotCalled
    /\ requested_cc = R(0) /\ d_volume_ret = NotCalled

VolumesUnchanged ==
    UNCHANGED <<fn, fractions, dose, organ, ebrt, prior_bed, ab_table, eqd2_limit, bed_ret, solve_ret,
                mainVars, nameVars, maskVars, lateVars, roi, dvhcalc_ret, requested_cc, d_volume_ret, points, constraints_arg, mapping_arg,
                eval_ret>>

CallContourVolumes ==
    /\ fn = "calculate_contour_volumes" /\ pc = "ready"
    /\ volumes' = [exc |-> "none", dict |-> calculate_contour_volumes(organ, roi)]
    /\ pc' = "done"
    /\ UNCHANGED <<structure_data, dvh>>
    /\ VolumesUnchanged

\* get_structure_data(rtstruct_dataset)
CallGetStructureData ==
    /\ fn = "get_dvh" /\ pc = "ready"
    /\ structure_data' = get_structure_data(organ, roi)
    /\ pc' = IF structure_data'.exc = "none" THEN "extracted" ELSE "raised"
    /\ UNCHANGED <<volumes, dvh>>
    /\ VolumesUnchanged

\* get_dvh(rtss_file, rtdose_file, structure_data, ...) on the extracted structure
CallGetDvhStructure ==
    /\ fn = "get_dvh" /\ pc = "extracted"
    /\ \E r \in get_dvh_structure(organ, roi, dvhcalc_ret, fractions, ebrt, EmptyDict, ab_table) :
          /\ dvh' = r.items
          /\ pc' = IF r.exc = "none" THEN "done" ELSE "raised"
    /\ volumes' = [exc |-> "none", dict |-> calculate_contour_volumes(organ, roi)]
    /\ UNCHANGED structure_data
    /\ VolumesUnchanged

NextVolumes == CallContourVolumes \/ CallGetStructureData \/ CallGetDvhStructure

SpecVolumes == InitVolumes /\ [][NextVolumes]_vars

(***************************************************************************)
(* Properties of calculate_contour_volumes                                 *)
(***************************************************************************)
VolumeReturned == fn = "calculate_contour_volumes" /\ pc = "done" /\ volumes.exc = "none"
Contours == roi.ContourSequence
ContourIndices == 1 .. Len(Contours)

\* the planes the slices lie on, in half millimetres, and the plane of a contour
PlanesHalfMm == {0, 5, 10}
PlaneOf(contour_data) ==
    CHOOSE l \in PlanesHalfMm : RLe(RAbs(RSub(contour_data[3], Rat(l, 2))), Rat(5, 100000))

\* the area of a contour whose sides lie along the axes: width times height, in mm2
Xs(contour_data) == {contour_data[3 * i - 2] : i \in 1 .. Len(contour_data) \div 3}
Ys(contour_data) == {contour_data[3 * i - 1] : i \in 1 .. Len(contour_data) \div 3}
Span(values) == (CHOOSE a \in values : \A b \in values : a >= b) - (CHOOSE a \in values : \A b \in values : a <= b)
BoxArea(contour_data) == Span(Xs(contour_data)) * Span(Ys(contour_data))

\* the area contoured on a plane: the sum over the contours from index i on
RECURSIVE PlaneArea(_, _)
PlaneArea(l, i) ==
    IF i > Len(Contours) THEN 0
    ELSE (IF PlaneOf(Contours[i]) = l THEN BoxArea(Contours[i]) ELSE 0) + PlaneArea(l, i + 1)

Contoured(l) == \E i \in ContourIndices : PlaneOf(Contours[i]) = l
AdjacentPlanes(a, b) == a < b /\ Contoured(a) /\ Contoured(b) /\ ~\E l \in PlanesHalfMm : a < l /\ l < b /\ Contoured(l)

\* 4 * (the volume in mm3) of the slab between two planes, 0 when they are not adjacent
Slab4(a, b) == IF AdjacentPlanes(a, b) THEN (PlaneArea(a, 1) + PlaneArea(b, 1)) * (b - a) ELSE 0

\* C13: the volume calculate_contour_volumes returns for a structure is the sum over the
\* pairs of adjacent z-levels of (area(z1) + area(z2))/2 * |z1 - z2|, divided by 1000,
\* area(z) being the sum of the areas of the polygons on z; one rectangle of 40 mm x 30 mm
\* repeated on two slices 5 mm apart gives 1200 * 5 / 1000 = 6 cm3.
C13_TrapezoidVolume ==
    VolumeReturned /\ roi.has_sequence =>
        /\ DOMAIN volumes.dict = {"Bladder"}
        /\ volumes.dict["Bladder"] = Rat(Slab4(0, 5) + Slab4(5, 10) + Slab4(0, 10), 4000)
        /\ (Len(Contours) = 2 /\ BoxArea(Contours[1]) = 1200 /\ BoxArea(Contours[2]) = 1200
              /\ PlaneOf(Contours[1]) = 0 /\ PlaneOf(Contours[2]) = 10
              => volumes.dict["Bladder"] = R(6))

\* the rectangle of 40 mm x 30 mm on two slices 5 mm apart, and three slices with
\* different areas
C13_Witness ==
    /\ VolumeReturned /\ roi.has_sequence
    /\ \/ /\ Contours = <<Rectangle(0, 0, 40, 30, R(0)), Rectangle(0, 0, 40, 30, R(5))>>
          /\ volumes.dict["Bladder"] = R(6)
       \/ /\ Len(Contours) = 3 /\ Slab4(0, 5) > 0 /\ Slab4(5, 10) > 0
          /\ PlaneArea(0, 1) # PlaneArea(5, 1)

\* the dose metrics of a record of dvh_results
DoseMetricKeys ==
    {"d2cc_gy_per_fraction", "d1cc_gy_per_fraction", "d0_1cc_gy_per_fraction",
     "max_dose_gy_per_fraction", "mean_dose_gy_per_fraction", "min_dose_gy_per_fraction",
     "d95_gy_per_fraction", "d98_gy_per_fraction", "d90_gy_per_fraction", "total_d2cc_gy"}

PipelineEnded == fn = "get_dvh" /\ pc \in {"done", "raised"}
NoContouredSlice == ~roi.has_sequence \/ roi.ContourSequence = <<>>

\* C14: a structure contoured on at most one z-level gets the volume 0, and a structure
\* with no contoured slice goes through get_structure_data and get_dvh without an
\* exception, with the volume 0 and every dose metric 0
C14_FewSlicesGiveZero ==
    /\ VolumeReturned /\ (roi.has_sequence => Cardinality(ZLevels(Contours)) <= 1)
          => volumes.dict["Bladder"] = R(0)
    /\ PipelineEnded /\ NoContouredSlice
          => /\ pc = "done"
             /\ Len(dvh) = 1 /\ dvh[1][1] = "Bladder"
             /\ dvh[1][2].volume_cc = R(0)
             /\ \A k \in DoseMetricKeys : dvh[1][2][k] = R(0)

\* the part of C14 that the code keeps: the volume, whenever it is calculated, and the
\* record of get_dvh when the structure has an empty contour sequence
C14_ZeroWhenExtracted ==
    /\ VolumeReturned /\ (roi.has_sequence => Cardinality(ZLevels(Contours)) <= 1)
          => volumes.dict["Bladder"] = R(0)
    /\ PipelineEnded /\ roi.has_sequence /\ roi.ContourSequence = <<>>
          => /\ pc = "done"
             /\ Len(dvh) = 1 /\ dvh[1][1] = "Bladder"
             /\ dvh[1][2].volume_cc = R(0)
             /\ \A k \in DoseMetricKeys : dvh[1][2][k] = R(0)

\* the structure without a contour sequence stops get_structure_data
C14_ExtractionRaises ==
    PipelineEnded /\ ~roi.has_sequence /\ pc = "raised" /\ structure_data.exc = "AttributeError"

(***************************************************************************)
(* The mask-based functions of src/calculations.py                         *)
(***************************************************************************)
MaxPolygons == 2

\* a dose grid of 3 slices of 2 rows and 3 columns, voxels of 10 mm x 10 mm, its first
\* voxel at (10, 20, -5) mm
GridShape == <<3, 2, 3>>
GridVoxels == (0 .. GridShape[1] - 1) \X (0 .. GridShape[2] - 1) \X (0 .. GridShape[3] - 1)
GridOffsets == {<<0, 5, 10>>, <<0, 8, 16>>, <<0, 10, 20>>, <<0, 5, 10, 15>>}
RawDoses ==
    {[v \in GridVoxels |-> 0], [v \in GridVoxels |-> 300],
     [v \in GridVoxels |-> 100 + 50 * v[1] + 300 * v[2] + 100 * v[3]]}

DoseGrids ==
    {[shape |-> GridShape, grid_frame_offset_vector |-> offsets, pixel_spacing |-> <<10, 10>>,
      image_position |-> <<10, 20, -5>>, raw |-> raw, dose_scaling |-> Centi(1)] :
        offsets \in GridOffsets, raw \in RawDoses}

\* polygons: a whole slice, one voxel, a rectangle larger than the slice and one beside
\* it, on the planes of the grid, between them and beyond them
PolygonZs == {R(-25), R(-5), R(-3), Rat(-5, 2), R(35)}
PolygonInputs ==
    UNION {{Rectangle(5, 15, 30, 20, z), Rectangle(15, 15, 10, 10, z), Rectangle(-20, -20, 100, 100, z),
            Rectangle(100, 15, 20, 20, z)} : z \in PolygonZs}

RECURSIVE PolygonsUpTo(_)
PolygonsUpTo(n) ==
    IF n = 0 THEN {<<>>}
    ELSE LET shorter == PolygonsUpTo(n - 1)
         IN  shorter \cup {Append(cs, c) : cs \in shorter, c \in PolygonInputs}

StructureOfContours(contours) == [ROINumber |-> 1, ContourData |-> contours]

\* the structures get_dvh is run on: without contours, one voxel, two and three whole
\* slices, a whole slice beyond the grid, and a contour larger than the slice
StructureInputs ==
    {StructureOfContours(cs) :
        cs \in {<<>>,
                <<Rectangle(15, 15, 10, 10, R(-5))>>,
                <<Rectangle(5, 15, 30, 20, R(-5)), Rectangle(5, 15, 30, 20, R(0))>>,
                <<Rectangle(5, 15, 30, 20, R(-5)), Rectangle(5, 15, 30, 20, R(0)), Rectangle(5, 15, 30, 20, R(15))>>,
                <<Rectangle(5, 15, 30, 20, R(35))>>,
                <<Rectangle(-20, -20, 100, 100, R(-5))>>}}

InitMask ==
    /\ pc = "ready"
    /\ dose_grid \in DoseGrids
    /\ edge_pixels \in BOOLEAN
    /\ \/ /\ fn = "create_mask_from_contours"
          /\ structure_data \in {<< <<"Bladder", StructureOfContours(cs)>> >> : cs \in PolygonsUpTo(MaxPolygons)}
          /\ dose_grid.raw = [v \in GridVoxels |-> 300]
          /\ fractions = 1
       \/ /\ fn = "mask get_dvh"
          /\ structure_data \in
               {<< <<"Bladder", b>> >> : b \in StructureInputs} \cup
               {<< <<"Bladder", b>>, <<"Rectum", r>> >> : b \in StructureInputs, r \in StructureInputs}
          /\ fractions \in {1, MaxFractions}
    /\ organ = "Bladder" /\ dose = R(0) /\ ebrt = R(0) /\ prior_bed = R(0)
    /\ ab_table = None /\ eqd2_limit = R(0) /\ bed_ret = NoBedResult /\ solve_ret = NoSolveResult
    /\ EvalNotRun /\ MainNotRun /\ NamesNotRun /\ LateNotRun
    /\ roi = NoContourSequence /\ volumes = NotCalled /\ dvhcalc_ret = DvhcalcRaises
    /\ requested_cc = R(0) /\ d_volume_ret = NotCalled
    /\ mask_ret = NotCalled /\ transform_ret = NotCalled

MaskUnchanged ==
    UNCHANGED <<fn, fractions, dose, organ, ebrt, prior_bed, ab_table, eqd2_limit, bed_ret, solve_ret,
                mainVars, nameVars, lateVars, volumeVars, dose_grid, edge_pixels, points, constraints_arg,
                mapping_arg, eval_ret>>

\* lines 66-67: transform_contour_to_dose_grid and create_mask_from_contours
CallCreateMask ==
    /\ fn = "create_mask_from_contours" /\ pc = "ready"
    /\ mask_ret' = [exc |-> "none",
                    mask |-> create_mask_from_contours(
                                 transform_contour_to_dose_grid(structure_data[1][2].ContourData,
                                     dose_grid.image_position, dose_grid.pixel_spacing),
                                 dose_grid.shape, dose_grid.grid_frame_offset_vector, edge_pixels)]
    /\ pc' = "done"
    /\ UNCHANGED <<dvh, transform_ret>>
    /\ MaskUnchanged

\* get_dvh(structure_data, dose_grid, ...) of src/calculations.py
CallMaskGetDvh ==
    /\ fn = "mask get_dvh" /\ pc = "ready"
    /\ dvh' \in MaskGetDvh(structure_data, 1, dose_grid, edge_pixels, fractions, <<>>)
    /\ pc' = "done"
    /\ UNCHANGED <<mask_ret, transform_ret>>
    /\ MaskUnchanged

NextMask == CallCreateMask \/ CallMaskGetDvh

SpecMask == InitMask /\ [][NextMask]_vars

MaskDvhReturned == fn = "mask get_dvh" /\ pc = "done"

\* the mask of the k-th structure given to get_dvh, its volume and the doses of its voxels
MaskOfStructure(k) ==
    create_mask_from_contours(
        transform_contour_to_dose_grid(structure_data[k][2].ContourData, dose_grid.image_position,
                                       dose_grid.pixel_spacing),
        dose_grid.shape, dose_grid.grid_frame_offset_vector, edge_pixels)
VoxelVolumeCc ==
    Rat(100 * Abs(dose_grid.grid_frame_offset_vector[2] - dose_grid.grid_frame_offset_vector[1]), 1000)
MaskVolumeCc(k) == RMul(R(Cardinality(MaskOfStructure(k))), VoxelVolumeCc)
VoxelDose(v) == Centi(dose_grid.raw[v])

\* the records that get_dvh returned under a name
RecordsOf(name) == {dvh[j][2] : j \in {i \in DOMAIN dvh : dvh[i][1] = name}}
MaskRecordKeys == {"volume_cc", "d2cc_gy_per_fraction", "total_d2cc_gy"}

\* C15: every structure given to get_dvh has a record in the result with every metric
\* key, and with the dose metrics 0 when its mask is empty
C15_EveryStructureHasRecord ==
    MaskDvhReturned =>
        \A k \in DOMAIN structure_data :
            /\ RecordsOf(structure_data[k][1]) # {}
            /\ \A rec \in RecordsOf(structure_data[k][1]) :
                  /\ DOMAIN rec = MaskRecordKeys
                  /\ MaskOfStructure(k) = {} =>
                        rec.d2cc_gy_per_fraction = R(0) /\ rec.total_d2cc_gy = R(0)

\* what the code keeps of C15: a structure whose mask is not empty has one complete
\* record, a structure whose mask is empty has none
C15_RecordUnlessMaskEmpty ==
    MaskDvhReturned =>
        \A k \in DOMAIN structure_data :
            /\ Cardinality(RecordsOf(structure_data[k][1])) = IF MaskOfStructure(k) = {} THEN 0 ELSE 1
            /\ \A rec \in RecordsOf(structure_data[k][1]) : DOMAIN rec = MaskRecordKeys

\* a structure without contours is given and the result has no record for it
C15_StructureMissing ==
    /\ MaskDvhReturned
    /\ \E k \in DOMAIN structure_data :
          structure_data[k][2].ContourData = <<>> /\ RecordsOf(structure_data[k][1]) = {}

\* what the current get_dvh keeps of C15: the record has every key, and the dose
\* metrics are 0 when the DVH library raised
C15_CurrentRecordComplete ==
    PipelineEnded /\ pc = "done" =>
        /\ Len(dvh) = 1 /\ DOMAIN dvh[1][2] = DvhRecordKeys
        /\ dvhcalc_ret.raises => \A k \in DoseMetricKeys : dvh[1][2][k] = R(0)

\* a record without its volume: what it says about D2cc
D2ccPart(rec) == [k \in DOMAIN rec \ {"volume_cc"} |-> rec[k]]

\* C16: a structure smaller than 2 cc gets D2cc = 0, and its record tells this case
\* apart from a D2cc that was computed and is 0
C16_UndefinedIsFlagged ==
    MaskDvhReturned =>
        \A i \in DOMAIN dvh :
            RLt(dvh[i][2].volume_cc, R(D2CC_VOLUME)) =>
                /\ dvh[i][2].d2cc_gy_per_fraction = R(0)
                /\ \A j \in DOMAIN dvh :
                      RLe(R(D2CC_VOLUME), dvh[j][2].volume_cc) => D2ccPart(dvh[i][2]) # D2ccPart(dvh[j][2])

\* what the code keeps of C16: the D2cc of a structure smaller than 2 cc is 0
C16_SmallStructureGetsZero ==
    MaskDvhReturned =>
        \A i \in DOMAIN dvh :
            RLt(dvh[i][2].volume_cc, R(D2CC_VOLUME)) =>
                dvh[i][2].d2cc_gy_per_fraction = R(0) /\ dvh[i][2].total_d2cc_gy = R(0)

\* a structure of one voxel and a structure of two slices in a dose of 0 get the same
\* D2cc part
C16_SameRecordForBoth ==
    /\ MaskDvhReturned /\ Len(dvh) = 2
    /\ RLt(dvh[1][2].volume_cc, R(D2CC_VOLUME)) /\ RLe(R(D2CC_VOLUME), dvh[2][2].volume_cc)
    /\ D2ccPart(dvh[1][2]) = D2ccPart(dvh[2][2])

\* the doses that are the n-th hottest of a mask: fewer than n voxels are hotter, and
\* at least n voxels are at least as hot
NthHottest(mask, n) ==
    {VoxelDose(v) : v \in {w \in mask :
        /\ Cardinality({u \in mask : RLt(VoxelDose(w), VoxelDose(u))}) < n
        /\ Cardinality({u \in mask : RLe(VoxelDose(w), VoxelDose(u))}) >= n}}

MaxBins == 3

\* cumulative volumes in cc, and the centres of bins of 0.01 Gy
CurveVolumes == {R(0), Rat(1, 20), Rat(1, 10), R(1), R(2), R(6)}
BinCentre(i) == Rat(2 * i - 1, 200)

RECURSIVE CurvesUpTo(_)
CurvesUpTo(n) ==
    IF n = 1 THEN {<<v>> : v \in CurveVolumes}
    ELSE LET shorter == CurvesUpTo(n - 1)
         IN  shorter \cup {Append(cs, v) : cs \in shorter, v \in CurveVolumes}

\* the DVH object with a cumulative curve: its volume is the volume of the first bin
DvhOfCurve(curve) ==
    DvhObject(curve[1], curve, [i \in DOMAIN curve |-> BinCentre(i)],
              R(0), R(0), BinCentre(Len(curve)), R(0), R(0), R(0), R(0), R(0))

InitDVolume ==
    /\ fn = "calculate_d_volume" /\ pc = "ready"
    /\ dvhcalc_ret \in {[raises |-> FALSE, dvh |-> None]} \cup
                       {[raises |-> FALSE, dvh |-> Some(DvhOfCurve(c))] : c \in CurvesUpTo(MaxBins)}
    /\ requested_cc \in {Rat(1, 10), R(1), R(2)}
    /\ d_volume_ret = NotCalled
    /\ RadioNotRun /\ EvalNotRun /\ MainNotRun /\ NamesNotRun /\ MaskNotRun /\ LateNotRun
    /\ roi = NoContourSequence /\ structure_data = NotCalled /\ volumes = NotCalled

\* calculate_d_volume(dvh, volume_cc)
CallDVolume ==
    /\ fn = "calculate_d_volume" /\ pc = "ready"
    /\ d_volume_ret' = calculate_d_volume(dvhcalc_ret.dvh, requested_cc)
    /\ pc' = "done"
    /\ UNCHANGED <<fn, fractions, dose, organ, ebrt, prior_bed, ab_table, eqd2_limit, bed_ret, solve_ret,
                   evalVars, mainVars, nameVars, maskVars, lateVars, roi, structure_data, volumes, dvhcalc_ret,
                   requested_cc>>

NextDVolume == CallDVolume

SpecDVolume == InitDVolume /\ [][NextDVolume]_vars

DVolumeReturned == fn = "calculate_d_volume" /\ pc = "done" /\ dvhcalc_ret.dvh # None
Curve == dvhcalc_ret.dvh[1].counts
NonIncreasing == \A i \in 1 .. Len(Curve) - 1 : RLe(Curve[i + 1], Curve[i])

\* the bins that straddle the requested volume: the first bin at or below it and the
\* bin before, all earlier bins being above it
Straddling(i) ==
    /\ i \in 2 .. Len(Curve)
    /\ RLe(Curve[i], requested_cc)
    /\ \A j \in 1 .. i - 1 : RLt(requested_cc, Curve[j])

RMin(x, y) == IF RLe(x, y) THEN x ELSE y
RMax(x, y) == IF RLe(x, y) THEN y ELSE x

\* C18: calculate_d_volume returns the dose on the straight line through the two bins
\* that straddle the requested volume; on a curve that does not increase the dose lies
\* between the doses of the two bins and is the dose of a bin whose cumulative volume
\* is the requested volume; no call divides by zero
C18_LinearInterpolation ==
    /\ fn = "calculate_d_volume" /\ pc = "done" => d_volume_ret.exc = "none"
    /\ DVolumeReturned /\ Curve[1] # R(0) =>
          /\ \A i \in 2 .. Len(Curve) :
                Straddling(i) =>
                    /\ RMul(RSub(d_volume_ret.dose, BinCentre(i - 1)), RSub(Curve[i], Curve[i - 1]))
                         = RMul(RSub(requested_cc, Curve[i - 1]), RSub(BinCentre(i), BinCentre(i - 1)))
                    /\ NonIncreasing =>
                          /\ RLe(RMin(BinCentre(i - 1), BinCentre(i)), d_volume_ret.dose)
                          /\ RLe(d_volume_ret.dose, RMax(BinCentre(i - 1), BinCentre(i)))
          /\ NonIncreasing /\ (\E j \in DOMAIN Curve : Curve[j] = requested_cc) =>
                \E j \in DOMAIN Curve : Curve[j] = requested_cc /\ d_volume_ret.dose = BinCentre(j)

\* a curve that falls from 6 cc over 2 cc to 0.05 cc, asked for 1 cc: the dose lies
\* strictly between the second and the third bin
C18_Witness ==
    /\ DVolumeReturned /\ Curve = <<R(6), R(2), Rat(1, 20)>> /\ requested_cc = R(1)
    /\ Straddling(3)
    /\ RLt(BinCentre(2), d_volume_ret.dose) /\ RLt(d_volume_ret.dose, BinCentre(3))

\* the dose metrics per fraction of a record of dvh_results
PerFractionKeys ==
    {"d2cc_gy_per_fraction", "d1cc_gy_per_fraction", "d0_1cc_gy_per_fraction",
     "max_dose_gy_per_fraction", "mean_dose_gy_per_fraction", "min_dose_gy_per_fraction",
     "d95_gy_per_fraction", "d98_gy_per_fraction", "d90_gy_per_fraction"}

UniformDoseReported == PipelineEnded /\ pc = "done" /\ dvhcalc_ret \in UniformOutcomes

\* C19: for a structure whose voxels all carry the dose v, every dose metric of its
\* record is v: mean, min, max, D2cc, D1cc, D0.1cc, D90, D95 and D98
C19_UniformDoseEverywhere ==
    UniformDoseReported => \A k \in PerFractionKeys : dvh[1][2][k] = UniformDose

\* what the code keeps of C19: the metrics taken from the DVH library are passed on
C19_LibraryMetricsPassedOn ==
    UniformDoseReported =>
        \A k \in PerFractionKeys \ {"d0_1cc_gy_per_fraction"} : dvh[1][2][k] = UniformDose

\* the D0.1cc of the uniform structure is 0, or 0.04 with a bin left beyond the dose
C19_D0_1ccDiffers ==
    /\ UniformDoseReported
    /\ dvh[1][2].d0_1cc_gy_per_fraction \in {R(0), Centi(4)}

\* what the mask-based get_dvh keeps of C19: in a dose grid that is 3 Gy everywhere the
\* D2cc of a structure of at least 2 cc is 3 Gy
C19_MaskD2ccOfUniformGrid ==
    MaskDvhReturned /\ dose_grid.raw = [v \in GridVoxels |-> 300] =>
        \A i \in DOMAIN dvh :
            RLe(R(2), dvh[i][2].volume_cc) => dvh[i][2].d2cc_gy_per_fraction = R(3)

MaskReturned == fn = "create_mask_from_contours" /\ pc = "done" /\ mask_ret.exc = "none"
Polygons == structure_data[1][2].ContourData

\* the z of a polygon relative to the first plane of the grid, the slices (from 0) whose
\* offset is nearest to it, and whether it lies beyond the planes of the grid
Offsets == dose_grid.grid_frame_offset_vector
RelativeZ(k) == RSub(PointZ(Polygons[k], 1), R(dose_grid.image_position[3]))
OffsetDistance(k, i) == RAbs(RSub(R(Offsets[i]), RelativeZ(k)))
NearestSlices(k) ==
    {i - 1 : i \in {j \in DOMAIN Offsets : \A l \in DOMAIN Offsets : RLe(OffsetDistance(k, j), OffsetDistance(k, l))}}
BeyondExtent(k) ==
    \/ \A i \in DOMAIN Offsets : RLt(RelativeZ(k), R(Offsets[i]))
    \/ \A i \in DOMAIN Offsets : RLt(R(Offsets[i]), RelativeZ(k))
MaskSlices == {v[1] : v \in mask_ret.mask}

\* C20: every polygon is put on one slice, the one whose offset is nearest to its z, and
\* a polygon whose z lies beyond the planes of the grid sets no voxel and raises nothing
C20_NearestSliceOrSkipped ==
    /\ fn = "create_mask_from_contours" /\ pc = "done" => mask_ret.exc = "none"
    /\ MaskReturned =>
          /\ Cardinality(MaskSlices) <= Len(Polygons)
          /\ \A z \in MaskSlices : \E k \in DOMAIN Polygons : ~BeyondExtent(k) /\ z \in NearestSlices(k)

\* what the code keeps of C20: every polygon is put on one slice, the nearest one, and
\* is skipped when that slice is not a slice of the dose grid
C20_NearestSliceOfGrid ==
    /\ fn = "create_mask_from_contours" /\ pc = "done" => mask_ret.exc = "none"
    /\ MaskReturned =>
          /\ Cardinality(MaskSlices) <= Len(Polygons)
          /\ \A z \in MaskSlices :
                z < dose_grid.shape[1] /\ \E k \in DOMAIN Polygons : z \in NearestSlices(k)

\* a single polygon 30 mm beyond the last plane of the grid fills voxels of the last slice
C20_BeyondExtentSetsVoxels ==
    /\ MaskReturned /\ Len(Polygons) = 1 /\ BeyondExtent(1)
    /\ Len(Offsets) = dose_grid.shape[1]
    /\ RelativeZ(1) = R(40)
    /\ mask_ret.mask # {} /\ MaskSlices = {dose_grid.shape[1] - 1}

\* a polygon whose nearest offset has no slice in the dose grid is skipped
C20_SkippedBeyondShape ==
    /\ MaskReturned /\ Len(Polygons) = 1 /\ Len(Offsets) > dose_grid.shape[1]
    /\ RelativeZ(1) = R(40) /\ mask_ret.mask = {}

\* the mask create_mask_from_contours gives for a sequence of the polygons
MaskOfPolygons(polygons) ==
    create_mask_from_contours(
        transform_contour_to_dose_grid(polygons, dose_grid.image_position, dose_grid.pixel_spacing),
        dose_grid.shape, dose_grid.grid_frame_offset_vector, edge_pixels)
Reversed(sequence) == [i \in DOMAIN sequence |-> sequence[Len(sequence) + 1 - i]]

\* C21: the mask grows with every contour processed (no voxel is reset), the final
\* mask is the union of the fills of the single polygons, and the contours in the
\* opposite order give the same mask
C21_MaskIsUnion ==
    MaskReturned =>
        /\ \A n \in 1 .. Len(Polygons) :
              MaskOfPolygons(SubSeq(Polygons, 1, n - 1)) \subseteq MaskOfPolygons(SubSeq(Polygons, 1, n))
        /\ mask_ret.mask = UNION {MaskOfPolygons(<<Polygons[k]>>) : k \in DOMAIN Polygons}
        /\ mask_ret.mask = MaskOfPolygons(Reversed(Polygons))

\* two polygons on different slices, and one voxel inside a whole slice: both fills
\* are in the mask
C21_Witness ==
    /\ MaskReturned /\ Len(Polygons) = 2
    /\ MaskOfPolygons(<<Polygons[1]>>) # {} /\ MaskOfPolygons(<<Polygons[2]>>) # {}
    /\ MaskOfPolygons(<<Polygons[1]>>) # MaskOfPolygons(<<Polygons[2]>>)
    /\ ~(MaskOfPolygons(<<Polygons[1]>>) \subseteq MaskOfPolygons(<<Polygons[2]>>))
    /\ MaskOfPolygons(<<Polygons[1]>>) \cup MaskOfPolygons(<<Polygons[2]>>) = mask_ret.mask

(***************************************************************************)
(* transform_contour_to_dose_grid on orientations, positions and spacings  *)
(***************************************************************************)
MaxVoxelIndex == 2

\* image orientations (row cosines, column cosines): along the axes, turned in the
\* plane, axes exchanged, a sagittal plane; and vectors that are parallel, opposite,
\* and 0.001 off parallel
ValidOrientations ==
    {<<R(1), R(0), R(0), R(0), R(1), R(0)>>,
     <<Rat(3, 5), Rat(4, 5), R(0), Rat(-4, 5), Rat(3, 5), R(0)>>,
     <<R(0), R(1), R(0), R(1), R(0), R(0)>>,
     <<R(0), R(1), R(0), R(0), R(0), R(-1)>>}
ParallelOrientations ==
    {<<R(1), R(0), R(0), R(1), R(0), R(0)>>,
     <<Rat(3, 5), Rat(4, 5), R(0), Rat(-3, 5), Rat(-4, 5), R(0)>>}
NearParallelOrientations == {<<R(1), R(0), R(0), R(1), Rat(1, 1000), R(0)>>}
Orientations == ValidOrientations \cup ParallelOrientations \cup NearParallelOrientations

ImagePositions == {<<0, 0, 0>>, <<10, 20, -5>>, <<-30, 5, 12>>}
\* pixel_spacing: (row spacing, column spacing) in mm
PixelSpacings == {<<10, 10>>, <<2, 5>>, <<5, 2>>}

\* the contour through the centres of the voxels (i, j), (i + 1, j) and (i, j + 1) of the
\* first slice of a grid along the axes: column i is i column spacings from the image
\* position in x, row j is j row spacings from it in y
VoxelCentre(i, j, image_position, pixel_spacing) ==
    <<image_position[1] + i * pixel_spacing[2], image_position[2] + j * pixel_spacing[1], R(image_position[3])>>
VoxelContour(i, j, image_position, pixel_spacing) ==
    VoxelCentre(i, j, image_position, pixel_spacing) \o VoxelCentre(i + 1, j, image_position, pixel_spacing)
        \o VoxelCentre(i, j + 1, image_position, pixel_spacing)

TransformInputs(image_position, pixel_spacing) ==
    {<<VoxelContour(i, j, image_position, pixel_spacing)>> : i \in 0 .. MaxVoxelIndex, j \in 0 .. MaxVoxelIndex}
    \cup {<<Rectangle(5, 15, 30, 20, R(-5))>>,
          <<Rectangle(5, 15, 30, 20, R(-5)), RectangleClockwise(-7, 3, 4, 9, Rat(5, 2))>>}

InitTransform ==
    /\ fn = "transform_contour_to_dose_grid" /\ pc = "ready"
    /\ dose_grid \in {[shape |-> GridShape, image_position |-> ip, pixel_spacing |-> ps, image_orientation |-> o] :
                         ip \in ImagePositions, ps \in PixelSpacings, o \in Orientations}
    /\ structure_data \in TransformInputs(dose_grid.image_position, dose_grid.pixel_spacing)
    /\ edge_pixels = FALSE /\ mask_ret = NotCalled /\ transform_ret = NotCalled
    /\ RadioNotRun /\ EvalNotRun /\ MainNotRun /\ NamesNotRun /\ LateNotRun
    /\ roi = NoContourSequence /\ volumes = NotCalled /\ dvhcalc_ret = DvhcalcRaises
    /\ requested_cc = R(0) /\ d_volume_ret = NotCalled

RVec(v) == [i \in DOMAIN v |-> R(v[i])]

\* transform_contour_to_dose_grid(contour_data, image_position, pixel_spacing, image_orientation)
CallTransform ==
    /\ fn = "transform_contour_to_dose_grid" /\ pc = "ready"
    /\ transform_ret' = TransformContours(structure_data, RVec(dose_grid.image_position),
                                          RVec(dose_grid.pixel_spacing), dose_grid.image_orientation)
    /\ pc' = IF transform_ret'.exc = "none" THEN "done" ELSE "raised"
    /\ UNCHANGED <<fn, fractions, dose, organ, ebrt, prior_bed, ab_table, eqd2_limit, bed_ret, solve_ret,
                   evalVars, mainVars, nameVars, lateVars, volumeVars, dose_grid, edge_pixels, mask_ret>>

NextTransform == CallTransform

SpecTransform == InitTransform /\ [][NextTransform]_vars

TransformEnded == fn = "transform_contour_to_dose_grid" /\ pc \in {"done", "raised"}
RowCosines == SubSeq(dose_grid.image_orientation, 1, 3)
ColumnCosines == SubSeq(dose_grid.image_orientation, 4, 6)
Dot(a, b) == RAdd(RAdd(RMul(a[1], b[1]), RMul(a[2], b[2])), RMul(a[3], b[3]))

\* the squared length of row x column is at most 0.0001: the vectors are parallel or
\* within 0.01 of it
NearlyParallel ==
    RLe(Dot(Cross(RowCosines, ColumnCosines), Cross(RowCosines, ColumnCosines)), Rat(1, 10000))

\* C22: with row and column vectors that are parallel or nearly parallel,
\* transform_contour_to_dose_grid fails with an error and returns no contours
C22_ParallelVectorsFail ==
    TransformEnded /\ NearlyParallel => pc = "raised" /\ transform_ret.exc # "none"

\* what the code keeps of C22: vectors that are exactly parallel make the inversion raise
C22_SingularRaises ==
    TransformEnded /\ Cross(RowCosines, ColumnCosines) = <<R(0), R(0), R(0)>> =>
        pc = "raised" /\ transform_ret.exc = "LinAlgError"

\* vectors 0.001 off parallel: the matrix is inverted and contours are returned
C22_NearParallelInverted ==
    /\ TransformEnded /\ dose_grid.image_orientation \in NearParallelOrientations
    /\ pc = "done" /\ transform_ret.exc = "none" /\ Len(transform_ret.transformed_contours) > 0

Orthonormal ==
    /\ Dot(RowCosines, RowCosines) = R(1) /\ Dot(ColumnCosines, ColumnCosines) = R(1)
    /\ Dot(RowCosines, ColumnCosines) = R(0)

\* the point of the patient system that the k-th contour's i-th point was, and its
\* image under the inverse affine: the transformed point with the spacings multiplied back
PatientPoint(k, i) == ContourPoints(structure_data[k])[i]
InverseImage(k, i) ==
    LET t == transform_ret.transformed_contours[k][i]
    IN  <<RMul(t[1], R(dose_grid.pixel_spacing[1])), RMul(t[2], R(dose_grid.pixel_spacing[2])), t[3]>>

\* C23: for an orthonormal orientation, the forward affine (rotation with the columns
\* row, column, row x column, and the image position) applied to the inverse-affine
\* image of a point gives the point back
C23_RoundTrip ==
    TransformEnded /\ Orthonormal =>
        /\ pc = "done"
        /\ \A k \in DOMAIN structure_data : \A i \in 1 .. PointCount(structure_data[k]) :
              ForwardAffine(dose_grid.image_orientation, RVec(dose_grid.image_position), InverseImage(k, i))
                  = PatientPoint(k, i)

\* an orientation turned in the plane and an image position off the origin: the inverse
\* image differs from the point, and the forward affine brings it back
C23_Witness ==
    /\ TransformEnded /\ pc = "done"
    /\ dose_grid.image_orientation = <<Rat(3, 5), Rat(4, 5), R(0), Rat(-4, 5), Rat(3, 5), R(0)>>
    /\ dose_grid.image_position = <<10, 20, -5>>
    /\ InverseImage(1, 1) # PatientPoint(1, 1)
    /\ ForwardAffine(dose_grid.image_orientation, RVec(dose_grid.image_position), InverseImage(1, 1))
           = PatientPoint(1, 1)

AlongAxes == dose_grid.image_orientation = <<R(1), R(0), R(0), R(0), R(1), R(0)>>
IsVoxelContour(i, j) ==
    structure_data = <<VoxelContour(i, j, dose_grid.image_position, dose_grid.pixel_spacing)>>

\* C24: with the orientation along the axes and pixel_spacing = (row spacing, column
\* spacing), the centre of the voxel in column i and row j is transformed to x = i and
\* y = j, also when the two spacings differ
C24_VoxelCentreToIndex ==
    TransformEnded /\ AlongAxes =>
        \A i \in 0 .. MaxVoxelIndex, j \in 0 .. MaxVoxelIndex :
            IsVoxelContour(i, j) =>
                /\ transform_ret.transformed_contours[1][1] = <<R(i), R(j), R(0)>>
                /\ transform_ret.transformed_contours[1][2] = <<R(i + 1), R(j), R(0)>>
                /\ transform_ret.transformed_contours[1][3] = <<R(i), R(j + 1), R(0)>>

\* what the code keeps of C24: the voxel centres go to their indices when the two
\* spacings are equal
C24_EqualSpacings ==
    TransformEnded /\ AlongAxes /\ dose_grid.pixel_spacing[1] = dose_grid.pixel_spacing[2] =>
        \A i \in 0 .. MaxVoxelIndex, j \in 0 .. MaxVoxelIndex :
            IsVoxelContour(i, j) =>
                /\ transform_ret.transformed_contours[1][1] = <<R(i), R(j), R(0)>>
                /\ transform_ret.transformed_contours[1][2] = <<R(i + 1), R(j), R(0)>>
                /\ transform_ret.transformed_contours[1][3] = <<R(i), R(j + 1), R(0)>>

\* rows 2 mm and columns 5 mm apart: the centre of the voxel in column 1 and row 0 is
\* transformed to x = 5/2
C24_ColumnScaledByRowSpacing ==
    /\ TransformEnded /\ AlongAxes /\ dose_grid.pixel_spacing = <<2, 5>> /\ IsVoxelContour(0, 0)
    /\ transform_ret.transformed_contours[1][2] = <<Rat(5, 2), R(0), R(0)>>

\* with the orientation along the axes, the transform of all orientations gives what the
\* transform used by the mask-based get_dvh gives
TransformAlongAxesAgrees ==
    TransformEnded /\ AlongAxes =>
        \A k \in DOMAIN structure_data : \A i \in 1 .. PointCount(structure_data[k]) :
            LET t == transform_contour_to_dose_grid(structure_data, dose_grid.image_position,
                                                    dose_grid.pixel_spacing)[k][i]
            IN  transform_ret.transformed_contours[k][i] = <<t.x, t.y, t.z>>

(***************************************************************************)
(* Repeated calls of the calculation functions on the same objects         *)
(***************************************************************************)
MaxCalls == 3

\* (mutant: the lookup inserts the default under the missing organ, as setdefault would)
TableAfterLookup_SetDefault(table, organ_name) ==
    IF organ_name \in DOMAIN table THEN table ELSE (organ_name :> table["Default"]) @@ table

\* alpha_beta_ratios.get(organ_name, alpha_beta_ratios["Default"]) leaves the table as it was
TableAfterLookup(table, organ_name) == table

\* the table a function works on: the argument, or the module's template when it is None
TableInUse == IF ab_table = None THEN Some(module_templates.alpha_beta_ratios) ELSE ab_table

\* the objects a call can reach: its arguments and the module-level templates
ObjectsOf(t, a, c, d) == [templates |-> t, alpha_beta_ratios |-> a, constraints |-> c, dvh_results |-> d]

LogEntry(function, arguments, after, ret) ==
    [function |-> function, arguments |-> arguments,
     before |-> ObjectsOf(module_templates, ab_table, constraints_arg, dvh), after |-> after, ret |-> ret]

InitCalls ==
    /\ fn = "calls" /\ pc = "ready"
    /\ ab_table \in {None, Some(CustomAlphaBeta), Some(NoDefaultAlphaBeta)}
    /\ constraints_arg \in {None, Some(FlatConstraints)}
    /\ dvh \in {<< <<"Bladder", [eqd2_d2cc |-> Centi(8001), eqd2_d90 |-> R(0), eqd2_d98 |-> R(0)]>> >>,
                << <<"Hrctv", [eqd2_d2cc |-> R(0), eqd2_d90 |-> R(85), eqd2_d98 |-> R(75)]>> >>}
    /\ points = <<>> /\ mapping_arg = None /\ eval_ret = NoEvalResult
    /\ fractions = 1 /\ dose = R(0) /\ organ = "Bladder" /\ ebrt = R(0) /\ prior_bed = R(0)
    /\ eqd2_limit = R(0) /\ bed_ret = NoBedResult /\ solve_ret = NoSolveResult
    /\ MainNotRun /\ RestNotRun

\* the lookup of lines 121, 143 and 184 acts on the table in use
LookupStep(function, arguments, organ_name, ret) ==
    LET table == IF RaisesKeyError(TableInUse) THEN TableInUse[1]
                 ELSE TableAfterLookup(TableInUse[1], organ_name)
    IN  /\ ab_table' = IF ab_table = None THEN None ELSE Some(table)
        /\ module_templates' = IF ab_table = None
                               THEN [module_templates EXCEPT !.alpha_beta_ratios = table]
                               ELSE module_templates
        /\ call_log' = Append(call_log, LogEntry(function, arguments,
                                   ObjectsOf(module_templates', ab_table', constraints_arg, dvh), ret))
        /\ UNCHANGED <<fn, pc, fractions, dose, organ, ebrt, prior_bed, eqd2_limit, bed_ret, solve_ret,
                       evalVars, mainVars, nameVars, volumeVars, maskVars, confirmed_mapping, point_arg, point_ret>>

CallsBedAndEqd2 ==
    /\ Len(call_log) < MaxCalls
    /\ \E organ_name \in {"Bladder", "Ovary"}, d \in {R(5), R(7)} :
          LookupStep("calculate_bed_and_eqd2", <<RMul(d, R(4)), d, organ_name, R(45), R(10)>>, organ_name,
                     calculate_bed_and_eqd2(RMul(d, R(4)), d, organ_name, R(45), R(10), TableInUse))

CallsPointDose ==
    /\ Len(call_log) < MaxCalls
    /\ \E organ_name \in {"Bladder", "Ovary"} :
          LookupStep("calculate_point_dose_bed_eqd2", <<R(7), 4, organ_name, R(45), R(10)>>, organ_name,
                     calculate_point_dose_bed_eqd2(R(7), 4, organ_name, R(45), R(10), TableInUse))

CallsDoseToMeet ==
    /\ Len(call_log) < MaxCalls
    /\ \E organ_name \in {"Bladder", "Ovary"} :
          LookupStep("calculate_dose_to_meet_constraint", <<R(80), organ_name, 4, R(45), R(10)>>, organ_name,
                     calculate_dose_to_meet_constraint(R(80), organ_name, 4, R(45), R(10), TableInUse))

\* evaluate_constraints builds its result in dictionaries of its own
CallsEvaluate ==
    /\ Len(call_log) < MaxCalls
    /\ call_log' = Append(call_log, LogEntry("evaluate_constraints", <<>>,
                               ObjectsOf(module_templates, ab_table, constraints_arg, dvh),
                               {evaluate_constraints(dvh, points,
                                    IF constraints_arg = None THEN Some(module_templates.constraints)
                                    ELSE constraints_arg,
                                    Some(module_templates.point_dose_constraints), mapping_arg)}))
    /\ UNCHANGED <<radioVars, evalVars, mainVars, nameVars, volumeVars, maskVars, module_templates,
                   confirmed_mapping, point_arg, point_ret>>

NextCalls == CallsBedAndEqd2 \/ CallsPointDose \/ CallsDoseToMeet \/ CallsEvaluate

SpecCalls == InitCalls /\ [][NextCalls]_vars

MaxStructures == 2

\* dict[key] = value on a dictionary kept as its items in insertion order
DictStore(items, key, value) ==
    IF \E i \in DOMAIN items : items[i][1] = key
    THEN [i \in DOMAIN items |-> IF items[i][1] = key THEN <<key, value>> ELSE items[i]]
    ELSE Append(items, <<key, value>>)

\* calculate_contour_volumes, lines 21-44: the loop over the structures of the file,
\* each volume stored under the normalized name
RECURSIVE AllContourVolumes(_, _, _)
AllContourVolumes(structures, k, volume_dict) ==
    IF k > Len(structures) THEN volume_dict
    ELSE LET v == calculate_contour_volumes(structures[k].name, structures[k].roi)
         IN  AllContourVolumes(structures, k + 1,
                               DictStore(volume_dict, normalize_structure_name(structures[k].name),
                                         v[normalize_structure_name(structures[k].name)]))

ItemValue(items, key) == items[CHOOSE i \in DOMAIN items : items[i][1] = key][2]

\* get_dvh, lines 214-311: the loop over structure_data, each record stored under the
\* normalized name with the volume found under that name
RECURSIVE AllDvh(_, _, _, _, _, _, _)
AllDvh(structures, k, all_calculated_volumes, number_of_fractions, ebrt_dose, alpha_beta_ratios, dvh_results) ==
    IF k > Len(structures) THEN {DvhResult("none", dvh_results)}
    ELSE UNION {
           IF r.exc # "none" THEN {r}
           ELSE UNION {AllDvh(structures, k + 1, all_calculated_volumes, number_of_fractions, ebrt_dose,
                              alpha_beta_ratios,
                              DictStore(dvh_results, r.items[1][1], [r.items[1][2] EXCEPT !.volume_cc = v])) :
                         v \in Round2(ItemValue(all_calculated_volumes, r.items[1][1]))} :
           r \in get_dvh_structure(structures[k].name, structures[k].roi, structures[k].outcome,
                                   number_of_fractions, ebrt_dose, EmptyDict, alpha_beta_ratios)}

\* the structures of a file: names that differ only in case or in a bracketed suffix
\* among them, each contoured on one slice or on two
FileNames == {"Bladder", "bladder", "Bladder [cm3]", "Rectum"}
FileRois ==
    {[has_sequence |-> TRUE, ContourSequence |-> cs] :
        cs \in {<<Rectangle(0, 0, 40, 30, R(0)), Rectangle(0, 0, 40, 30, R(5))>>,
                <<Rectangle(0, 0, 40, 30, R(0)), Rectangle(0, 0, 40, 30, R(10))>>}}
FileStructure == [name : FileNames, roi : FileRois,
                  outcome : {DvhcalcRaises, [raises |-> FALSE, dvh |-> Some(SmallDvh)]}]
RECURSIVE FilesOf(_)
FilesOf(n) ==
    IF n = 0 THEN {<<>>}
    ELSE {Append(f, t) : f \in FilesOf(n - 1), t \in FileStructure}
Files ==
    {f \in UNION {FilesOf(n) : n \in 1 .. MaxStructures} :
        \A i, j \in DOMAIN f : i # j => f[i].name # f[j].name}

InitStructures ==
    /\ fn \in {"calculate_contour_volumes of a file", "get_dvh of a file"}
    /\ pc = "ready"
    /\ structure_data \in Files
    /\ fractions \in {1, 4}
    /\ dose = R(0) /\ organ = "Bladder" /\ ebrt = R(0) /\ prior_bed = R(0)
    /\ ab_table = None /\ eqd2_limit = R(0) /\ bed_ret = NoBedResult /\ solve_ret = NoSolveResult
    /\ EvalNotRun /\ MainNotRun /\ NamesNotRun /\ MaskNotRun /\ LateNotRun
    /\ roi = NoContourSequence /\ volumes = NotCalled /\ dvhcalc_ret = DvhcalcRaises
    /\ requested_cc = R(0) /\ d_volume_ret = NotCalled

StructuresUnchanged ==
    UNCHANGED <<fn, fractions, dose, organ, ebrt, prior_bed, ab_table, eqd2_limit, bed_ret, solve_ret,
                points, constraints_arg, mapping_arg, eval_ret, mainVars, nameVars, maskVars, lateVars,
                roi, structure_data, dvhcalc_ret, requested_cc, d_volume_ret>>

\* calculate_contour_volumes(rtstruct_file, structure_data)
CallAllContourVolumes ==
    /\ fn = "calculate_contour_volumes of a file" /\ pc = "ready"
    /\ volumes' = [exc |-> "none", items |-> AllContourVolumes(structure_data, 1, <<>>)]
    /\ pc' = "done"
    /\ UNCHANGED dvh
    /\ StructuresUnchanged

\* get_dvh(rtss_file, rtdose_file, structure_data, number_of_fractions, ...)
CallAllDvh ==
    /\ fn = "get_dvh of a file" /\ pc = "ready"
    /\ volumes' = [exc |-> "none", items |-> AllContourVolumes(structure_data, 1, <<>>)]
    /\ \E r \in AllDvh(structure_data, 1, volumes'.items, fractions, ebrt, ab_table, <<>>) :
          /\ dvh' = r.items
          /\ pc' = IF r.exc = "none" THEN "done" ELSE "raised"
    /\ StructuresUnchanged

NextStructures == CallAllContourVolumes \/ CallAllDvh

SpecStructures == InitStructures /\ [][NextStructures]_vars

FileEnded == fn \in {"calculate_contour_volumes of a file", "get_dvh of a file"} /\ pc = "done"
NormalizedNames(structures) == {normalize_structure_name(structures[i].name) : i \in DOMAIN structures}
SharedName(structures) == Cardinality(NormalizedNames(structures)) < Len(structures)

\* C26: get_dvh and calculate_contour_volumes return one record per structure given:
\* as many volumes and as many DVH records as there are structures
C26_OneRecordPerStructure ==
    FileEnded =>
        /\ Len(volumes.items) = Len(structure_data)
        /\ fn = "get_dvh of a file" => Len(dvh) = Len(structure_data)

\* the same holds for the structures whose normalized names all differ
C26_DistinctNamesKept ==
    (FileEnded /\ ~SharedName(structure_data)) =>
        /\ Len(volumes.items) = Len(structure_data)
        /\ fn = "get_dvh of a file" => Len(dvh) = Len(structure_data)

\* there is one record for each normalized name, holding the volume of the last
\* structure of that name
C26_OneRecordPerNormalizedName ==
    FileEnded =>
        /\ Len(volumes.items) = Cardinality(NormalizedNames(structure_data))
        /\ fn = "get_dvh of a file" => Len(dvh) = Cardinality(NormalizedNames(structure_data))
        /\ \A i \in DOMAIN structure_data :
              (\A j \in DOMAIN structure_data :
                  j > i => normalize_structure_name(structure_data[j].name)
                             # normalize_structure_name(structure_data[i].name))
              => ItemValue(volumes.items, normalize_structure_name(structure_data[i].name))
                   = calculate_contour_volumes(structure_data[i].name, structure_data[i].roi)[
                         normalize_structure_name(structure_data[i].name)]

\* two structures of one normalized name and different volumes leave one DVH record
C26_SecondOverwritesFirst ==
    /\ FileEnded /\ fn = "get_dvh of a file" /\ Len(structure_data) = 2
    /\ structure_data[1].name = "Bladder" /\ structure_data[2].name = "Bladder [cm3]"
    /\ structure_data[1].roi # structure_data[2].roi
    /\ Len(dvh) = 1

(***************************************************************************)
(* The mask-based get_dvh on dose grids of coarse voxels                   *)
(***************************************************************************)
\* slices 10, 30, 40 and 50 mm apart: voxels of 1, 3, 4 and 5 cc
CoarseOffsets == {<<0, 10, 20>>, <<0, 30, 60>>, <<0, 40, 80>>, <<0, 50, 100>>}
CoarseGrids ==
    {[shape |-> GridShape, grid_frame_offset_vector |-> offsets, pixel_spacing |-> <<10, 10>>,
      image_position |-> <<10, 20, -5>>, raw |-> raw, dose_scaling |-> Centi(1)] :
        offsets \in CoarseOffsets, raw \in RawDoses}

InitCoarse ==
    /\ pc = "ready" /\ fn = "mask get_dvh"
    /\ dose_grid \in CoarseGrids
    /\ edge_pixels \in BOOLEAN
    /\ structure_data \in
         {<< <<"Bladder", b>> >> : b \in StructureInputs} \cup
         {<< <<"Bladder", b>>, <<"Rectum", r>> >> : b \in StructureInputs, r \in StructureInputs}
    /\ fractions \in {1, MaxFractions}
    /\ organ = "Bladder" /\ dose = R(0) /\ ebrt = R(0) /\ prior_bed = R(0)
    /\ ab_table = None /\ eqd2_limit = R(0) /\ bed_ret = NoBedResult /\ solve_ret = NoSolveResult
    /\ EvalNotRun /\ MainNotRun /\ NamesNotRun /\ LateNotRun
    /\ roi = NoContourSequence /\ volumes = NotCalled /\ dvhcalc_ret = DvhcalcRaises
    /\ requested_cc = R(0) /\ d_volume_ret = NotCalled
    /\ mask_ret = NotCalled /\ transform_ret = NotCalled

NextCoarse == CallMaskGetDvh

SpecCoarse == InitCoarse /\ [][NextCoarse]_vars

\* the structures whose D2cc is read from the sorted doses
ReadsD2cc(k) == RLe(R(D2CC_VOLUME), MaskVolumeCc(k))
VoxelsFor2cc == RoundInt(RDiv(R(D2CC_VOLUME), VoxelVolumeCc))
ColdestDose(mask) == CHOOSE d \in {VoxelDose(v) : v \in mask} : \A w \in mask : RLe(d, VoxelDose(w))
HottestDose(mask) == CHOOSE d \in {VoxelDose(v) : v \in mask} : \A w \in mask : RLe(VoxelDose(w), d)

\* C27: whenever D2cc is read, the index round(2 / voxel_volume_cc) - 1 lies between 0
\* and the number of masked voxels minus 1
C27_IndexInRange ==
    MaskDvhReturned =>
        \A k \in DOMAIN structure_data :
            ReadsD2cc(k) =>
                \A voxels_for_2cc \in VoxelsFor2cc :
                    /\ 0 <= voxels_for_2cc - 1
                    /\ voxels_for_2cc - 1 <= Cardinality(MaskOfStructure(k)) - 1

\* the index never lies past the end of the sorted doses
C27_NeverPastEnd ==
    MaskDvhReturned =>
        \A k \in DOMAIN structure_data :
            ReadsD2cc(k) =>
                \A voxels_for_2cc \in VoxelsFor2cc : voxels_for_2cc - 1 <= Cardinality(MaskOfStructure(k)) - 1

\* the index is not negative for voxels of less than 4 cc
C27_FineVoxelsInRange ==
    (MaskDvhReturned /\ RLt(VoxelVolumeCc, R(4))) =>
        \A k \in DOMAIN structure_data :
            ReadsD2cc(k) => \A voxels_for_2cc \in VoxelsFor2cc : 0 <= voxels_for_2cc - 1

\* voxels of 5 cc: the index is -1 and the D2cc reported for a structure of several
\* voxels is the dose of its coldest voxel, below that of its hottest
C27_CoarseVoxelReadsColdest ==
    /\ MaskDvhReturned /\ VoxelVolumeCc = R(5)
    /\ \E k \in DOMAIN structure_data :
          /\ ReadsD2cc(k)
          /\ VoxelsFor2cc = {0}
          /\ RLt(ColdestDose(MaskOfStructure(k)), HottestDose(MaskOfStructure(k)))
          /\ \A rec \in RecordsOf(structure_data[k][1]) :
                rec.d2cc_gy_per_fraction = ColdestDose(MaskOfStructure(k))

(***************************************************************************)
(* src/src/main.py: from get_dvh to the constraint pass, for the organs of *)
(* a plan and a confirmed structure mapping                                *)
(***************************************************************************)
\* the metrics of lines 313-323 that evaluate_constraints reads, with their keys
PassMetrics == <<"d2cc", "d90", "d98">>
DoseKeyOf == [d2cc |-> "d2cc_gy_per_fraction", d90 |-> "d90_gy_per_fraction", d98 |-> "d98_gy_per_fraction"]
BedKeyOf == [d2cc |-> "bed_d2cc", d90 |-> "bed_d90", d98 |-> "bed_d98"]
Eqd2KeyOf == [d2cc |-> "eqd2_d2cc", d90 |-> "eqd2_d90", d98 |-> "eqd2_d98"]
BedBrachyKeyOf == [d2cc |-> "bed_brachy_d2cc", d90 |-> "bed_brachy_d90", d98 |-> "bed_brachy_d98"]

\* lines 328-334: the prior BED of a metric; with a confirmed mapping that lists the
\* organ it is looked up under the mapped name
MappedPreviousBed(mapping, prev, organ_key, metric) ==
    IF mapping # None /\ DOMAIN mapping[1] # {} /\ Has(mapping[1], organ_key)
    THEN LET json_organ == mapping[1][organ_key]
         IN  IF Has(prev, json_organ) /\ prev[json_organ].kind = "dict"
             THEN IF Has(prev[json_organ], metric) THEN prev[json_organ][metric] ELSE R(0)
             ELSE R(0)
    ELSE MainPreviousBed(prev, organ_key, metric)

CallRecord(function, organ_key, metric, number_of_fractions, ebrt_dose, previous_brachy_bed) ==
    [function |-> function, organ |-> organ_key, metric |-> metric, number_of_fractions |-> number_of_fractions,
     ebrt_dose |-> ebrt_dose, previous_brachy_bed |-> previous_brachy_bed]

LoopResult(exc, data, calls) == [exc |-> exc, data |-> data, calls |-> calls]

\* lines 324-347: the loop over the metrics of one organ, from the k-th on
RECURSIVE MappedMetricLoop(_, _, _, _, _, _, _, _, _)
MappedMetricLoop(organ_key, data, k, number_of_fractions_for_calc, ebrt_dose, prev, mapping, table, calls) ==
    IF k > Len(PassMetrics) THEN {LoopResult("none", data, calls)}
    ELSE LET metric_key == PassMetrics[k]
             dose_per_fraction == IF Has(data, DoseKeyOf[metric_key]) THEN data[DoseKeyOf[metric_key]] ELSE R(0)
             total_dose == RMul(dose_per_fraction, R(number_of_fractions_for_calc))
             previous_brachy_bed == MappedPreviousBed(mapping, prev, organ_key, metric_key)
             made == Append(calls, CallRecord("calculate_bed_and_eqd2", organ_key, metric_key,
                                              number_of_fractions_for_calc, ebrt_dose, previous_brachy_bed))
         IN  UNION {IF r.exc # "none" THEN {LoopResult(r.exc, data, made)}
                    ELSE MappedMetricLoop(organ_key,
                             (BedKeyOf[metric_key] :> r.total_bed) @@ (Eqd2KeyOf[metric_key] :> r.eqd2) @@
                             (BedBrachyKeyOf[metric_key] :> r.bed_brachy) @@ data,
                             k + 1, number_of_fractions_for_calc, ebrt_dose, prev, mapping, table, made) :
                    r \in calculate_bed_and_eqd2(total_dose, dose_per_fraction, organ_key, ebrt_dose,
                                                 previous_brachy_bed, Some(table))}

\* line 312: the loop over dvh_results, from the i-th organ on
RECURSIVE MetricLoopOfOrgans(_, _, _, _, _, _, _, _)
MetricLoopOfOrgans(dvh_results, i, number_of_fractions_for_calc, ebrt_dose, prev, mapping, table, calls) ==
    IF i > Len(dvh_results) THEN {LoopResult("none", dvh_results, calls)}
    ELSE UNION {IF r.exc # "none" THEN {LoopResult(r.exc, dvh_results, r.calls)}
                ELSE MetricLoopOfOrgans([dvh_results EXCEPT ![i] = <<dvh_results[i][1], r.data>>], i + 1,
                                        number_of_fractions_for_calc, ebrt_dose, prev, mapping, table, r.calls) :
                r \in MappedMetricLoop(dvh_results[i][1], dvh_results[i][2], 1, number_of_fractions_for_calc,
                                       ebrt_dose, prev, mapping, table, calls)}

\* lines 304-310: get_dvh for the structures of the plan, from the k-th on; every
\* structure has the D2cc d2cc_gy_per_fraction
RECURSIVE MainGetDvh(_, _, _, _, _, _, _, _)
MainGetDvh(structures, k, d2cc_gy_per_fraction, number_of_fractions, ebrt_dose, prev, table, dvh_results) ==
    IF k > Len(structures) THEN {DvhResult("none", dvh_results)}
    ELSE UNION {IF r.exc # "none" THEN {r}
                ELSE MainGetDvh(structures, k + 1, d2cc_gy_per_fraction, number_of_fractions, ebrt_dose, prev,
                                table, DictStore(dvh_results, r.items[1][1], r.items[1][2])) :
                r \in get_dvh(structures[k], d2cc_gy_per_fraction, number_of_fractions, ebrt_dose, prev,
                              Some(table))}

\* the value 'N/A' of the entry dose_to_meet_constraint, beside the solver's results
NotApplicable == SolveResult("N/A", R(0))

\* (mutant: every organ with an evaluation gets a dose)
NeedsDose_AnyEvaluation(constraint_evaluation, organ_key) == Has(constraint_evaluation, organ_key)

\* line 410
NeedsDose(constraint_evaluation, organ_key) ==
    /\ Has(constraint_evaluation, organ_key)
    /\ GetOpt(constraint_evaluation[organ_key], "EQD2_met") = Some("False")

\* lines 413-415: the prior D2cc BED the pass hands to the solver
PassPreviousBed(prev, organ_key) ==
    IF Has(prev, organ_key)
    THEN IF prev[organ_key].kind = "dict"
         THEN IF Has(prev[organ_key], "d2cc") THEN prev[organ_key]["d2cc"] ELSE R(0)
         ELSE R(0)
    ELSE R(0)

\* lines 409-424: the loop over dvh_results, from the i-th organ on
RECURSIVE ConstraintPass(_, _, _, _, _, _, _, _)
ConstraintPass(dvh_results, i, constraint_evaluation, number_of_fractions_for_calc, ebrt_dose, prev, table, calls) ==
    IF i > Len(dvh_results) THEN {LoopResult("none", dvh_results, calls)}
    ELSE LET organ_key == dvh_results[i][1]
             prev_d2cc_bed == PassPreviousBed(prev, organ_key)
         IN  IF NeedsDose(constraint_evaluation, organ_key)
             THEN UNION {ConstraintPass(
                             [dvh_results EXCEPT ![i] = <<organ_key, ("dose_to_meet_constraint" :> r) @@ dvh_results[i][2]>>],
                             i + 1, constraint_evaluation, number_of_fractions_for_calc, ebrt_dose, prev, table,
                             Append(calls, CallRecord("calculate_dose_to_meet_constraint", organ_key, "d2cc",
                                                      number_of_fractions_for_calc, ebrt_dose, prev_d2cc_bed))) :
                         r \in calculate_dose_to_meet_constraint(constraint_evaluation[organ_key]["EQD2_max"],
                                   organ_key, number_of_fractions_for_calc, ebrt_dose, prev_d2cc_bed, Some(table))}
             ELSE ConstraintPass(
                      [dvh_results EXCEPT ![i] = <<organ_key, ("dose_to_meet_constraint" :> NotApplicable) @@ dvh_results[i][2]>>],
                      i + 1, constraint_evaluation, number_of_fractions_for_calc, ebrt_dose, prev, table, calls)

\* the plans: one or two of these structures, an earlier plan as JSON under the same or
\* under another name, and a confirmed mapping to that other name
PassStructures == {"Bladder", "Rectum", "Hrctv", "Ovary"}
PassPlans ==
    {<<a>> : a \in PassStructures} \cup
    {p \in {<<a, b>> : a \in PassStructures, b \in PassStructures} : p[1] # p[2]}
PassPrevious ==
    {NoPreviousData,
     [kind |-> "json", dvh_results |-> [Bladder |-> <<R(5)>>]],
     [kind |-> "json", dvh_results |-> ("Urinary bladder" :> <<R(5)>>)],
     [kind |-> "json", dvh_results |-> ("Urinary bladder" :> <<R(5)>>) @@ [Bladder |-> <<R(6)>>]]}
PassMappings == {None, Some(EmptyDict), Some("Bladder" :> "Urinary bladder"), Some("Rectum" :> "Bowel")}

InitPass ==
    /\ fn = "main constraint pass" /\ pc = "dvh"
    /\ structure_data \in PassPlans
    /\ dose \in {R(5), Centi(650)}
    /\ fractions \in {1, 4}
    /\ ebrt \in {R(0), R(45)}
    /\ args_ab = AbsentArg
    /\ current_ab = BuildAlphaBetaTable(args_ab)
    /\ args_prev \in PassPrevious
    /\ previous_brachy_bed_per_organ = LoadPreviousBrachy(args_prev, current_ab)
    /\ confirmed_mapping \in PassMappings
    /\ constraints_arg \in {None, Some(FlatConstraints)}
    /\ main_exc = "none"
    /\ organ = "Bladder" /\ prior_bed = R(0) /\ eqd2_limit = R(0) /\ ab_table = None
    /\ bed_ret = NoBedResult /\ solve_ret = NoSolveResult /\ eval_ret = NoEvalResult
    /\ dvh = <<>> /\ points = <<>> /\ mapping_arg = None
    /\ NamesNotRun /\ MaskNotRun
    /\ roi = NoContourSequence /\ volumes = NotCalled /\ dvhcalc_ret = DvhcalcRaises
    /\ requested_cc = R(0) /\ d_volume_ret = NotCalled
    /\ module_templates = ConfigTemplates /\ call_log = <<>>
    /\ point_arg = <<>> /\ point_ret = NotCalled

PassUnchanged ==
    UNCHANGED <<fn, fractions, dose, organ, ebrt, prior_bed, ab_table, eqd2_limit, bed_ret, solve_ret,
                points, constraints_arg, mapping_arg, args_ab, args_prev, current_ab,
                previous_brachy_bed_per_organ, nameVars, volumeVars, maskVars, module_templates,
                confirmed_mapping, point_arg, point_ret>>

\* lines 304-310
PassGetDvhStep ==
    /\ fn = "main constraint pass" /\ pc = "dvh"
    /\ \E r \in MainGetDvh(structure_data, 1, dose, fractions, ebrt, previous_brachy_bed_per_organ, current_ab, <<>>) :
          /\ dvh' = r.items
          /\ main_exc' = r.exc
          /\ pc' = IF r.exc = "none" THEN "metrics" ELSE "raised"
    /\ UNCHANGED <<eval_ret, call_log>>
    /\ PassUnchanged

\* lines 312-347
PassMetricStep ==
    /\ fn = "main constraint pass" /\ pc = "metrics"
    /\ \E r \in MetricLoopOfOrgans(dvh, 1, fractions, ebrt, previous_brachy_bed_per_organ, confirmed_mapping,
                                    current_ab, call_log) :
          /\ dvh' = r.data
          /\ call_log' = r.calls
          /\ main_exc' = r.exc
          /\ pc' = IF r.exc = "none" THEN "evaluate" ELSE "raised"
    /\ UNCHANGED eval_ret
    /\ PassUnchanged

\* line 372: evaluate_constraints on the records of the metric loop
PassEvaluateStep ==
    /\ fn = "main constraint pass" /\ pc = "evaluate"
    /\ eval_ret' = evaluate_constraints(dvh, points, constraints_arg, None, mapping_arg)
    /\ main_exc' = eval_ret'.exc
    /\ pc' = IF eval_ret'.exc = "none" THEN "pass" ELSE "raised"
    /\ UNCHANGED <<dvh, call_log>>
    /\ PassUnchanged

\* lines 409-424
PassDoseToMeetStep ==
    /\ fn = "main constraint pass" /\ pc = "pass"
    /\ \E r \in ConstraintPass(dvh, 1, eval_ret.constraint_evaluation, fractions, ebrt,
                                previous_brachy_bed_per_organ, current_ab, call_log) :
          /\ dvh' = r.data
          /\ call_log' = r.calls
    /\ pc' = "done"
    /\ UNCHANGED <<eval_ret, main_exc>>
    /\ PassUnchanged

NextPass == PassGetDvhStep \/ PassMetricStep \/ PassEvaluateStep \/ PassDoseToMeetStep

SpecPass == InitPass /\ [][NextPass]_vars

PassEnded == fn = "main constraint pass" /\ pc = "done"
Unmet(organ_key) ==
    /\ Has(eval_ret.constraint_evaluation, organ_key)
    /\ Has(eval_ret.constraint_evaluation[organ_key], "EQD2_met")
    /\ eval_ret.constraint_evaluation[organ_key]["EQD2_met"] = "False"

ConverterCalls(organ_key) ==
    {call_log[i] : i \in {j \in DOMAIN call_log :
        /\ call_log[j].function = "calculate_bed_and_eqd2"
        /\ call_log[j].organ = organ_key /\ call_log[j].metric = "d2cc"}}
SolverCalls(organ_key) ==
    {call_log[i] : i \in {j \in DOMAIN call_log :
        call_log[j].function = "calculate_dose_to_meet_constraint" /\ call_log[j].organ = organ_key}}
MappingLists(organ_key) ==
    confirmed_mapping # None /\ DOMAIN confirmed_mapping[1] # {} /\ Has(confirmed_mapping[1], organ_key)

C29_SameWithoutMapping ==
    PassEnded =>
        \A i \in DOMAIN dvh :
            Unmet(dvh[i][1]) =>
                /\ SolverCalls(dvh[i][1]) # {} /\ ConverterCalls(dvh[i][1]) # {}
                /\ \A c \in ConverterCalls(dvh[i][1]), s \in SolverCalls(dvh[i][1]) :
                      /\ s.ebrt_dose = c.ebrt_dose
                      /\ s.number_of_fractions = c.number_of_fractions
                      /\ ~MappingLists(dvh[i][1]) => s.previous_brachy_bed = c.previous_brachy_bed

\* the bladder mapped to the entry "Urinary bladder" of the prior data: its eqd2_d2cc
\* holds that entry's BED, the solver is given none
C29_MappedPriorDropped ==
    /\ PassEnded /\ Unmet("Bladder") /\ MappingLists("Bladder")
    /\ Has(previous_brachy_bed_per_organ, "Urinary bladder")
    /\ ~Has(previous_brachy_bed_per_organ, "Bladder")
    /\ \E c \in ConverterCalls("Bladder"), s \in SolverCalls("Bladder") :
          /\ c.previous_brachy_bed = previous_brachy_bed_per_organ["Urinary bladder"]["d2cc"]
          /\ c.previous_brachy_bed.n > 0
          /\ s.previous_brachy_bed = R(0)

(***************************************************************************)
(* src/src/calculations.py: get_dose_at_point                              *)
(***************************************************************************)
PointResult(exc, value, read) == [exc |-> exc, value |-> value, read |-> read]

\* lines 80-82
InBounds(idx_z, idx_y, idx_x, shape) ==
    /\ 0 <= idx_x /\ idx_x < shape[3]
    /\ 0 <= idx_y /\ idx_y < shape[2]
    /\ 0 <= idx_z /\ idx_z < shape[1]

\* an index of an axis of n elements as numpy takes it: a negative one counts from the end
WrapIndex(i, n) == IF i < 0 THEN i + n ELSE i

\* dose_grid[idx_z, idx_y, idx_x]: IndexError for an index outside -n .. n - 1
GridRead(grid, idx_z, idx_y, idx_x, dose_scaling) ==
    LET z == WrapIndex(idx_z, grid.shape[1])
        y == WrapIndex(idx_y, grid.shape[2])
        x == WrapIndex(idx_x, grid.shape[3])
    IN  IF <<z, y, x>> \in DOMAIN grid.raw
        THEN PointResult("none", RMul(R(grid.raw[<<z, y, x>>]), dose_scaling), <<idx_z, idx_y, idx_x>>)
        ELSE PointResult("IndexError", R(0), <<idx_z, idx_y, idx_x>>)

\* lines 60-67
SpacingZ(grid_frame_offset_vector) ==
    IF Len(grid_frame_offset_vector) > 1
    THEN grid_frame_offset_vector[2] - grid_frame_offset_vector[1]
    ELSE 1

\* get_dose_at_point: the results it can return (round() on a tie is taken either way)
get_dose_at_point(grid, dose_scaling, image_position_patient, pixel_spacing, grid_frame_offset_vector, point_coordinates) ==
    IF grid = None \/ point_coordinates = <<>> THEN {PointResult("none", R(0), <<>>)}
    ELSE IF pixel_spacing[1] = 0 \/ pixel_spacing[2] = 0 \/ SpacingZ(grid_frame_offset_vector) = 0
    THEN {PointResult("ZeroDivisionError", R(0), <<>>)}
    ELSE
    LET voxel_x == RDiv(R(point_coordinates[1] - image_position_patient[1]), R(pixel_spacing[1]))
        voxel_y == RDiv(R(point_coordinates[2] - image_position_patient[2]), R(pixel_spacing[2]))
        voxel_z == RDiv(R(point_coordinates[3] - grid_frame_offset_vector[1]),
                        R(SpacingZ(grid_frame_offset_vector)))
    IN  {IF ~InBounds(idx_z, idx_y, idx_x, grid[1].shape) THEN PointResult("none", R(0), <<>>)
         ELSE GridRead(grid[1], idx_z, idx_y, idx_x, dose_scaling) :
            idx_x \in RoundInt(voxel_x), idx_y \in RoundInt(voxel_y), idx_z \in RoundInt(voxel_z)}

\* dose grids of 2 rows and 3 columns of 10 mm, the first voxel at (10, 20, -5) mm, every
\* voxel with a raw dose of its own: three slices 5 mm apart listed upwards or downwards
\* from the first, or one slice
PointGridOf(offsets) ==
    [shape |-> <<Len(offsets), 2, 3>>, grid_frame_offset_vector |-> offsets, pixel_spacing |-> <<10, 10>>,
     image_position |-> <<10, 20, -5>>, dose_scaling |-> Centi(1),
     raw |-> [v \in (0 .. Len(offsets) - 1) \X (0 .. 1) \X (0 .. 2) |-> 1 + 6 * v[1] + 3 * v[2] + v[3]]]
PointGrids == {None} \cup {Some(PointGridOf(offsets)) : offsets \in {<<0, 5, 10>>, <<0, -5, -10>>, <<0>>}}
PointCoordinates ==
    {<<>>} \cup ({4, 10, 15, 24, 36} \X {14, 20, 26, 36} \X {-16, -10, -5, -3, 0, 2, 5, 10, 13})

InitPoint ==
    /\ fn = "get_dose_at_point" /\ pc = "ready"
    /\ dose_grid \in PointGrids
    /\ point_arg \in PointCoordinates
    /\ point_ret = NotCalled
    /\ module_templates = ConfigTemplates /\ call_log = <<>> /\ confirmed_mapping = None
    /\ edge_pixels = FALSE /\ mask_ret = NotCalled /\ transform_ret = NotCalled
    /\ RadioNotRun /\ EvalNotRun /\ MainNotRun /\ NamesNotRun /\ VolumesNotRun

CallGetDoseAtPoint ==
    /\ fn = "get_dose_at_point" /\ pc = "ready"
    /\ point_ret' \in
         IF dose_grid = None
         THEN get_dose_at_point(None, R(0), <<>>, <<>>, <<>>, point_arg)
         ELSE get_dose_at_point(dose_grid, dose_grid[1].dose_scaling, dose_grid[1].image_position,
                                dose_grid[1].pixel_spacing, dose_grid[1].grid_frame_offset_vector, point_arg)
    /\ pc' = IF point_ret'.exc = "none" THEN "done" ELSE "raised"
    /\ UNCHANGED <<fn, fractions, dose, organ, ebrt, prior_bed, ab_table, eqd2_limit, bed_ret, solve_ret,
                   evalVars, mainVars, nameVars, volumeVars, maskVars, module_templates, call_log,
                   confirmed_mapping, point_arg>>

NextPoint == CallGetDoseAtPoint

SpecPoint == InitPoint /\ [][NextPoint]_vars

PointEnded == fn = "get_dose_at_point" /\ pc \in {"done", "raised"}
PointGrid == dose_grid[1]

\* the centre of a voxel in the patient system: voxel (0, 0, 0) lies at image_position,
\* the columns and rows are pixel_spacing apart, slice z lies grid_frame_offset_vector[z]
\* from the first slice
CentreX(x) == PointGrid.image_position[1] + x * PointGrid.pixel_spacing[1]
CentreY(y) == PointGrid.image_position[2] + y * PointGrid.pixel_spacing[2]
CentreZ(z) == PointGrid.image_position[3] + PointGrid.grid_frame_offset_vector[z + 1]
                - PointGrid.grid_frame_offset_vector[1]

\* the indices nearest to the point along each axis of the lattice the grid lies on
\* (several on a tie), the slices continued at the spacing of the first two
LatticeIndices == -8 .. 8
NearestOf(coordinate, origin, spacing) ==
    {i \in LatticeIndices :
        \A j \in LatticeIndices : Abs(coordinate - (origin + i * spacing)) <= Abs(coordinate - (origin + j * spacing))}
NearestVoxels ==
    NearestOf(point_arg[3], PointGrid.image_position[3], SpacingZ(PointGrid.grid_frame_offset_vector))
    \X NearestOf(point_arg[2], PointGrid.image_position[2], PointGrid.pixel_spacing[2])
    \X NearestOf(point_arg[1], PointGrid.image_position[1], PointGrid.pixel_spacing[1])
\* the same with the slices counted from grid_frame_offset_vector[0] instead of the z of
\* image_position
NearestVoxelsFromOffset ==
    NearestOf(point_arg[3], PointGrid.grid_frame_offset_vector[1], SpacingZ(PointGrid.grid_frame_offset_vector))
    \X NearestOf(point_arg[2], PointGrid.image_position[2], PointGrid.pixel_spacing[2])
    \X NearestOf(point_arg[1], PointGrid.image_position[1], PointGrid.pixel_spacing[1])
DoseOfVoxel(v) == RMul(R(PointGrid.raw[v]), PointGrid.dose_scaling)

\* what C30 allows for a set of nearest voxels: 0.0 for no grid, no point or a nearest
\* voxel outside the grid, else the dose of a nearest voxel
AllowedFor(nearest) ==
    /\ point_ret.exc = "none"
    /\ IF dose_grid = None \/ point_arg = <<>> THEN point_ret.value = R(0)
       ELSE \E v \in nearest :
               IF v \in DOMAIN PointGrid.raw THEN point_ret.value = DoseOfVoxel(v)
               ELSE point_ret.value = R(0)

\* C30: get_dose_at_point returns 0.0 without a grid, without point coordinates and for
\* a point whose nearest voxel lies outside the grid, and the dose of the nearest voxel
\* for every other point; it raises nothing and reads no voxel outside the grid
C30_DoseOfNearestVoxel ==
    PointEnded =>
        /\ AllowedFor(IF dose_grid = None \/ point_arg = <<>> THEN {} ELSE NearestVoxels)
        /\ point_ret.read # <<>> => point_ret.read \in DOMAIN PointGrid.raw

\* no call raises, and every voxel read is a voxel of the grid
C30_NeverReadsOutside ==
    PointEnded =>
        /\ point_ret.exc = "none"
        /\ point_ret.read # <<>> => point_ret.read \in DOMAIN PointGrid.raw
        /\ point_ret.read = <<>> => point_ret.value = R(0)

\* the function returns what C30 says when the slices are counted from
\* grid_frame_offset_vector[0], as its z index is
C30_NearestFromOffset ==
    PointEnded =>
        AllowedFor(IF dose_grid = None \/ point_arg = <<>> THEN {} ELSE NearestVoxelsFromOffset)

\* the point at the centre of voxel (0, 0, 0) of a grid whose first slice lies at
\* z = -5 mm: 0.0 is returned, not the dose of that voxel
C30_CentreOfFirstVoxelGetsZero ==
    /\ PointEnded /\ dose_grid # None /\ point_arg # <<>>
    /\ point_arg = <<CentreX(0), CentreY(0), CentreZ(0)>>
    /\ Len(PointGrid.grid_frame_offset_vector) = 3
    /\ point_ret.value = R(0) /\ point_ret.read = <<>>
    /\ DoseOfVoxel(<<0, 0, 0>>) # R(0)

====
